---- MODULE Spec2Model ----
(***************************************************************************)
(* Model of the measurement pipeline of dvbcss-synctiming:                 *)
(*   src/src/measurer.py  (class Measurer, repackageSamples, isAudio,      *)
(*                         captureAndPackageIntoChannels)                  *)
(*                                                                         *)
(* Python attributes that may be absent (never assigned yet) and Python    *)
(* None are modelled as optional values: <<>> is "absent"/None and <<v>>   *)
(* is "present with value v".  Python lists are sequences; list index i    *)
(* is sequence index i+1.                                                  *)
(***************************************************************************)
EXTENDS Integers, Sequences, FiniteSets, TLC

\* ------------------------------------------------------------------------
\* Bounds of the model
\* ------------------------------------------------------------------------
MaxPins == 2        \* longest pinsToMeasure list
MaxBlocks == 2      \* largest nMilliBlocks the device reports
MaxSlack == 2       \* most bytes a raw buffer is too short or too long by
MaxTicks == 1       \* last reading of the wall clock
MaxLog == 2         \* longest correlation log the feed fills
MaxObserved == 3    \* longest generated observed sequence
MaxExpected == 3    \* longest generated expected sequence
MaxSeqBits == 3     \* longest register of a maximal-length sequence
MaxFrame == 3       \* largest frame number and frame count

\* ------------------------------------------------------------------------
\* Generic helpers
\* ------------------------------------------------------------------------
None == <<>>
Some(v) == <<v>>
IsSet(o) == o # <<>>
Get(o) == o[1]

SeqsUpTo(S, n) == UNION {[1..k -> S] : k \in 0..n}

IsPrefix(s, t) == Len(s) <= Len(t) /\ SubSeq(t, 1, Len(s)) = s

Range(s) == {s[k] : k \in 1..Len(s)}

\* ------------------------------------------------------------------------
\* Pins
\* ------------------------------------------------------------------------
\* the four pin identifiers of Measurer.pinMap, and one name outside it
PinNames == {"LIGHT_0", "AUDIO_0", "LIGHT_1", "AUDIO_1"}
UnknownPin == "LIGHT_9"

\* a pin map that numbers the light pins before the audio pins
pinMapByKind == [p \in PinNames |->
             CASE p = "LIGHT_0" -> 0
               [] p = "LIGHT_1" -> 1
               [] p = "AUDIO_0" -> 2
               [] p = "AUDIO_1" -> 3]

\* self.pinMap = {"LIGHT_0": 0, "AUDIO_0": 1, "LIGHT_1": 2, "AUDIO_1": 3}
pinMap == [p \in PinNames |->
             CASE p = "LIGHT_0" -> 0
               [] p = "AUDIO_0" -> 1
               [] p = "LIGHT_1" -> 2
               [] p = "AUDIO_1" -> 3]

\* isAudio(pinName): outcome "ok" with the flag, or ValueError
isAudio(pinName) ==
    IF pinName = "LIGHT_0" \/ pinName = "LIGHT_1"
      THEN [outcome |-> "ok", value |-> FALSE]
      ELSE IF pinName = "AUDIO_0" \/ pinName = "AUDIO_1"
             THEN [outcome |-> "ok", value |-> TRUE]
             ELSE [outcome |-> "ValueError", value |-> FALSE]

\* ------------------------------------------------------------------------
\* repackageSamples
\* ------------------------------------------------------------------------
\* channels = [None, None, None, None]
EmptyChannels == [k \in 1..4 |-> None]

\* the dictionary created for one pin in the first loop of repackageSamples
NewChannel(pinName) ==
    [pinName |-> pinName, isAudio |-> isAudio(pinName).value,
     min |-> <<>>, max |-> <<>>, eventDuration |-> None]

\* InitChannels giving each name the slot of its place in pinsToMeasure
RECURSIVE InitChannelsInOrder(_, _, _)
InitChannelsInOrder(pinsToMeasure, k, channels) ==
    IF k > Len(pinsToMeasure)
      THEN [outcome |-> "ok", channels |-> channels]
      ELSE IF isAudio(pinsToMeasure[k]).outcome # "ok"
             THEN [outcome |-> "ValueError", channels |-> None]
             ELSE IF pinsToMeasure[k] \notin DOMAIN pinMap
                    THEN [outcome |-> "KeyError", channels |-> None]
                    ELSE InitChannelsInOrder(pinsToMeasure, k + 1,
                           [channels EXCEPT ![k] =
                               Some(NewChannel(pinsToMeasure[k]))])

\* first loop: for pinName in pinsToMeasure: channels[pinMap[pinName]] = {...}
\* The right-hand side is evaluated first, so isAudio(pinName) raises
\* ValueError for an unrecognised name before pinMap[pinName] is looked up;
\* a recognised name missing from the map that was passed raises KeyError.
RECURSIVE InitChannels(_, _, _)
InitChannels(pinsToMeasure, k, channels) ==
    IF k > Len(pinsToMeasure)
      THEN [outcome |-> "ok", channels |-> channels]
      ELSE IF isAudio(pinsToMeasure[k]).outcome # "ok"
             THEN [outcome |-> "ValueError", channels |-> None]
             ELSE IF pinsToMeasure[k] \notin DOMAIN pinMap
                    THEN [outcome |-> "KeyError", channels |-> None]
                    ELSE InitChannels(pinsToMeasure, k + 1,
                           [channels EXCEPT ![pinMap[pinsToMeasure[k]] + 1] =
                               Some(NewChannel(pinsToMeasure[k]))])

\* ord(samples[i]) : samples is modelled as the sequence of its byte values
Ord(samples, i) == samples[i + 1]

\* FillSlot with the max and min bytes read in the wrong order
FillSlotSwapped(channels, c, i, samples) ==
    IF channels[c] = None
      THEN [outcome |-> "ok", channels |-> channels, i |-> i]
      ELSE IF i + 1 >= Len(samples)
             THEN [outcome |-> "IndexError", channels |-> None, i |-> i]
             ELSE [outcome |-> "ok",
                   channels |-> [channels EXCEPT ![c] = Some(
                       [Get(@) EXCEPT !.max = Append(@, Ord(samples, i + 1)),
                                      !.min = Append(@, Ord(samples, i))])],
                   i |-> i + 2]

\* FillSlot with the index advanced only once per slot
FillSlotOverlap(channels, c, i, samples) ==
    IF channels[c] = None
      THEN [outcome |-> "ok", channels |-> channels, i |-> i]
      ELSE IF i + 1 >= Len(samples)
             THEN [outcome |-> "IndexError", channels |-> None, i |-> i]
             ELSE [outcome |-> "ok",
                   channels |-> [channels EXCEPT ![c] = Some(
                       [Get(@) EXCEPT !.max = Append(@, Ord(samples, i)),
                                      !.min = Append(@, Ord(samples, i + 1))])],
                   i |-> i + 1]

\* body of the inner loop for one channel slot c (1..4) of one block:
\* appends max then min and advances i by two; IndexError when samples[i]
\* does not exist.
FillSlot(channels, c, i, samples) ==
    IF channels[c] = None
      THEN [outcome |-> "ok", channels |-> channels, i |-> i]
      ELSE IF i >= Len(samples)
             THEN [outcome |-> "IndexError", channels |-> None, i |-> i]
             ELSE IF i + 1 >= Len(samples)
                    THEN [outcome |-> "IndexError", channels |-> None, i |-> i + 1]
                    ELSE [outcome |-> "ok",
                          channels |-> [channels EXCEPT ![c] = Some(
                              [Get(@) EXCEPT !.max = Append(@, Ord(samples, i)),
                                             !.min = Append(@, Ord(samples, i + 1))])],
                          i |-> i + 2]

\* for blk in range(0, nMilliBlocks): for channel in channels: ...
RECURSIVE FillLoop(_, _, _, _, _, _)
FillLoop(blk, c, i, channels, nMilliBlocks, samples) ==
    IF blk >= nMilliBlocks
      THEN [outcome |-> "ok", channels |-> channels, consumed |-> i]
      ELSE IF c > 4
             THEN FillLoop(blk + 1, 1, i, channels, nMilliBlocks, samples)
             ELSE LET r == FillSlot(channels, c, i, samples)
                  IN IF r.outcome # "ok"
                       THEN [outcome |-> r.outcome, channels |-> None,
                             consumed |-> r.i]
                       ELSE FillLoop(blk, c + 1, r.i, r.channels,
                                     nMilliBlocks, samples)

\* repackageSamples(pinsToMeasure, pinMap, nMilliBlocks, samples)
\* result: outcome "ok" with the 4-slot channel list, or the exception
\* raised; consumed is the final value of the index i.
repackageSamples(pinsToMeasure, nMilliBlocks, samples) ==
    LET init == InitChannels(pinsToMeasure, 1, EmptyChannels)
    IN IF init.outcome # "ok"
         THEN [outcome |-> init.outcome, channels |-> None, consumed |-> 0]
         ELSE FillLoop(0, 1, 0, init.channels, nMilliBlocks, samples)

\* ------------------------------------------------------------------------
\* Inputs of repackageSamples: a raw buffer as the capture device lays it
\* out (docstring of repackageSamples: "Each millisecond block holds data
\* for each activated pin, ... the high and low values observed on that pin")
\* ------------------------------------------------------------------------
\* (max, min) readings of one pin over one sample interval
SamplePairs == {<<255, 0>>, <<9, 7>>}

\* the pins of a request that the pin map knows
ActivePins(pinsToMeasure) == Range(pinsToMeasure) \cap PinNames

\* the bytes of one sample interval: per active pin, in ascending device
\* channel index, its max byte and then its min byte
RECURSIVE BlockBytes(_, _, _)
BlockBytes(synth, blk, idx) ==
    IF idx > 3 THEN <<>>
    ELSE LET ps == {p \in DOMAIN synth : pinMap[p] = idx}
         IN (IF ps = {} THEN <<>>
             ELSE LET p == CHOOSE q \in ps : TRUE
                  IN <<synth[p][blk][1], synth[p][blk][2]>>)
            \o BlockBytes(synth, blk, idx + 1)

RECURSIVE Interleave(_, _, _)
Interleave(synth, blk, nBlocks) ==
    IF blk > nBlocks THEN <<>>
    ELSE BlockBytes(synth, blk, 0) \o Interleave(synth, blk + 1, nBlocks)

\* buffers that are exact, too short or too long by at most MaxSlack bytes
Tampered(full) ==
    {SubSeq(full, 1, Len(full) - d) : d \in 0..(IF Len(full) < MaxSlack THEN Len(full) ELSE MaxSlack)}
    \cup {full \o [k \in 1..d |-> 7] : d \in 1..MaxSlack}

BytesNeeded(pinsToMeasure, nMilliBlocks) ==
    2 * Cardinality(ActivePins(pinsToMeasure)) * nMilliBlocks

\* ------------------------------------------------------------------------
\* Inputs of a measurement session
\* ------------------------------------------------------------------------
\* pinsToMeasure argument: no pin, one pin, two pins out of channel order,
\* a pin named twice, a name outside the pin map
SessionPinLists ==
    {<<>>, <<"LIGHT_0">>, <<"AUDIO_0", "LIGHT_0">>, <<"LIGHT_0", "LIGHT_0">>,
     <<"LIGHT_0", UnknownPin>>}

\* the numbers of active pins the device may report for a request
ReportedCounts(pins) == {n \in {Len(pins) - 1, Len(pins), Len(pins) + 1} : n >= 0}

\* expectedTimings argument: expected event times (sync timeline ticks) of
\* every pin being measured
ExpectedFor(p) == IF p = "LIGHT_0" THEN <<110>> ELSE <<110, 120>>
ExpectedTimings(pins) == [p \in ActivePins(pins) |-> ExpectedFor(p)]

\* eventDurations argument: the keys in dictionary (insertion) order; the
\* duration of a pin's events
EventDurationKeys == {<<>>, <<"LIGHT_0">>, <<"LIGHT_0", "AUDIO_0">>}
DurationFor(p) == IF p = "LIGHT_0" THEN 40 ELSE 20

\* what a detection pass can report for one channel
ObservedChoices == {<<>>, <<111>>, <<111, 121>>}

\* role argument: the two values capture() knows, and a third that the
\* constructor stores all the same
Roles == {"master", "client", "owner"}

\* ------------------------------------------------------------------------
\* State
\* ------------------------------------------------------------------------
VARIABLES
    rpPins,      \* repackageSamples argument pinsToMeasure
    rpBlocks,    \* repackageSamples argument nMilliBlocks
    rpSynth,     \* the per-pin (max, min) readings the buffer was built from
    rpSamples,   \* repackageSamples argument samples
    rpOut,       \* absent, or the result of the call
    genCall,     \* absent, or the call made of a function of the test
                 \* sequence generator: its name and arguments
    genOut,      \* absent, or what that call returned or raised
    sess,        \* "none", "live", or the exception Measurer(...) raised
    role,                  \* self.role
    pinsToMeasure,         \* self.pinsToMeasure
    expectedTimings,       \* self.expectedTimings
    eventDurations,        \* self.eventDurations (keys, in order)
    nActivePins,           \* self.nActivePins
    syncTimelineClockController,           \* attribute set? (BOOLEAN)
    timestampedReceivedControlTimeStamps,  \* optional list
    wcSyncTimeCorrelations,                \* optional list
    sameList,    \* wcSyncTimeCorrelations and timestampedReceivedControlTimeStamps
                 \* are bound to the same list object
    channels,              \* self.channels (optional)
    dueStartTimeUsecs,     \* optional
    dueFinishTimeUsecs,    \* optional
    wcAcReqResp,           \* optional
    observedTimings,       \* optional
    testPackage,           \* optional
    wallTicks,   \* wallClock.ticks
    pc,          \* position of the main thread inside capture()
    cap,         \* local variables of capture()
    device,      \* calls made on the capture device and snapshots taken, in
                 \* order, by the constructor or by the latest capture() call
    lastOp,      \* the last call the main thread made, and its outcome
    callbacksSince  \* ctsRecorder invocations since lastOp was written

rpVars == <<rpPins, rpBlocks, rpSynth, rpSamples, rpOut>>
genVars == <<genCall, genOut>>
libVars == <<rpVars, genVars>>

argVars == <<sess, role, pinsToMeasure, expectedTimings, eventDurations, nActivePins>>
feedVars == <<syncTimelineClockController, timestampedReceivedControlTimeStamps>>
captureVars == <<channels, dueStartTimeUsecs, dueFinishTimeUsecs, wcAcReqResp>>
detectVars == <<observedTimings, testPackage>>
corrVars == <<wcSyncTimeCorrelations, sameList>>

sessionVars == <<argVars, feedVars, captureVars, detectVars, corrVars,
                 wallTicks, pc, cap, device, lastOp, callbacksSince>>

vars == <<rpVars, genVars, sessionVars>>

\* a completed call: the operation, how it ended (ok, running, or the
\* exception raised) and, for doComparison, what it was given and did
Call(op, outcome) == [op |-> op, outcome |-> outcome, detail |-> None]
NoCall == Call("none", "none")
NoLocals == [correlationPre |-> None, ret |-> None, samples |-> None]

\* no repackageSamples call under study
RepackageIdle ==
    /\ rpPins = <<>> /\ rpBlocks = 0 /\ rpSynth = <<>> /\ rpSamples = <<>>
    /\ rpOut = None

\* no call of a generator function under study
GenIdle == genCall = None /\ genOut = None

\* no Measurer object yet
SessionNone ==
    /\ sess = "none"
    /\ role = "none" /\ pinsToMeasure = <<>> /\ expectedTimings = <<>>
    /\ eventDurations = <<>> /\ nActivePins = 0
    /\ syncTimelineClockController = FALSE
    /\ timestampedReceivedControlTimeStamps = None
    /\ wcSyncTimeCorrelations = None /\ sameList = FALSE
    /\ channels = None /\ dueStartTimeUsecs = None /\ dueFinishTimeUsecs = None
    /\ wcAcReqResp = None /\ observedTimings = None /\ testPackage = None
    /\ wallTicks = 0 /\ pc = "idle" /\ cap = NoLocals /\ device = <<>>
    /\ lastOp = NoCall /\ callbacksSince = 0

\* ------------------------------------------------------------------------
\* Specification of the pure function repackageSamples
\* ------------------------------------------------------------------------
InitRepackage ==
    /\ rpPins \in SeqsUpTo(PinNames \cup {UnknownPin}, MaxPins)
    /\ rpBlocks \in 0..MaxBlocks
    /\ rpSynth \in [ActivePins(rpPins) -> [1..rpBlocks -> SamplePairs]]
    /\ rpSamples \in Tampered(Interleave(rpSynth, 1, rpBlocks))
    /\ rpOut = None
    /\ GenIdle
    /\ SessionNone

Repackage ==
    /\ rpOut = None
    /\ rpOut' = Some(repackageSamples(rpPins, rpBlocks, rpSamples))
    /\ UNCHANGED <<rpPins, rpBlocks, rpSynth, rpSamples, genVars, sessionVars>>

NextRepackage == Repackage

SpecRepackage == InitRepackage /\ [][NextRepackage]_vars

\* ------------------------------------------------------------------------
\* Measurer.__init__
\* ------------------------------------------------------------------------
\* activatePinReading: the pin indices sent to the device, and KeyError at
\* the first name outside pinMap
RECURSIVE activatePinReading(_, _, _)
activatePinReading(pins, k, sent) ==
    IF k > Len(pins) THEN [outcome |-> "ok", sent |-> sent]
    ELSE IF pins[k] \notin DOMAIN pinMap
           THEN [outcome |-> "KeyError", sent |-> sent]
           ELSE activatePinReading(pins, k + 1,
                    Append(sent, [req |-> "samplePin", arg |-> pinMap[pins[k]]]))

\* the comparison of line 75 letting a larger count through
CountCheckAtLeast(reported, pins) ==
    IF reported < Len(pins) THEN "ValueError" ELSE "live"

\* the outcome of the comparison of line 75
CountCheck(reported, pins) ==
    IF reported # Len(pins) THEN "ValueError" ELSE "live"

\* Measurer(role, pinsToMeasure, expectedTimings, eventDurations, ...) where
\* the device answers prepareToCapture with `reported` active pins
Construct(r, pins, durs, reported) ==
    /\ sess = "none"
    /\ LET act == activatePinReading(pins, 1, <<>>)
       IN /\ role' = r
          /\ pinsToMeasure' = pins
          /\ expectedTimings' = ExpectedTimings(pins)
          /\ eventDurations' = durs
          /\ IF act.outcome # "ok"
               THEN /\ sess' = act.outcome
                    /\ device' = act.sent
                    /\ nActivePins' = nActivePins
               ELSE /\ device' = Append(act.sent, [req |-> "prepareToCapture", arg |-> reported])
                    /\ nActivePins' = reported
                    /\ sess' = CountCheck(reported, pins)
    /\ lastOp' = Call("construct", sess')
    /\ callbacksSince' = 0
    /\ UNCHANGED <<libVars, feedVars, captureVars, detectVars, corrVars,
                   wallTicks, pc, cap>>

\* ------------------------------------------------------------------------
\* Clocks
\* ------------------------------------------------------------------------
\* videoStartTicks and syncTimelineTickRate arguments of the session
videoStartTicks == 100
syncClockTickRate == 10

\* syncTimelineClock.ticks when the wall clock reads w
SyncTimelineTicks(w) == videoStartTicks + w
\* syncTimelineClock.toOtherClockTicks(wallClock, t)
ToWallClockTicks(t) == t - videoStartTicks
\* syncTimelineClock.speed
TimelineSpeed == 1

\* time passes
Tick ==
    /\ wallTicks < MaxTicks
    /\ wallTicks' = wallTicks + 1
    /\ UNCHANGED callbacksSince
    /\ UNCHANGED <<libVars, argVars, feedVars, captureVars, detectVars, corrVars,
                   pc, cap, device, lastOp>>

\* snapShot() taken when the wall clock reads w
snapShot(w) ==
    LET syncTimeNow == SyncTimelineTicks(w)
        wcNow == ToWallClockTicks(syncTimeNow)
        speed == TimelineSpeed
        whenSnapshotted == wcNow
    IN <<whenSnapshotted, <<wcNow, syncTimeNow, speed>>>>

\* ------------------------------------------------------------------------
\* The protocol feed: setSyncTimeLinelockController and ctsRecorder
\* ------------------------------------------------------------------------
\* ("Only used when the measurement system is acting as client")
setSyncTimeLinelockController ==
    /\ sess = "live" /\ pc = "idle"
    /\ role = "client"
    /\ timestampedReceivedControlTimeStamps' = Some(<<>>)
    /\ syncTimelineClockController' = TRUE
    /\ sameList' = FALSE    \* a new list object; wcSyncTimeCorrelations keeps the old
    /\ lastOp' = Call("setSyncTimeLinelockController", "ok")
    /\ callbacksSince' = 0
    /\ UNCHANGED <<libVars, argVars, captureVars, detectVars, wcSyncTimeCorrelations,
                   wallTicks, pc, cap, device>>

\* syncTimelineClockController.latestCt at wall clock time w, as
\* (wallClockTime, contentTime, timelineSpeedMultiplier): the correlation
\* the timeline's server holds at that time
LatestCts(w) == {<<w, SyncTimelineTicks(w), TimelineSpeed>>}

\* ctsRecorder stamping the entry with the content time of the control
\* timestamp instead of the local wall clock
RecordedAtContentTime(log, whenReceived, cts) == Append(log, <<cts[2], cts>>)

\* ctsRecorder with the entry put in front of the list
RecordedFirst(log, whenReceived, cts) == <<<<whenReceived, cts>>>> \o log

\* the list after line 95: the tuple is appended
Recorded(log, whenReceived, cts) == Append(log, <<whenReceived, cts>>)

\* the callback of the clock controller, which may run at any moment once
\* the controller is set; cts is the controller's latestCt
ctsRecorder(cts) ==
    /\ sess = "live"
    /\ syncTimelineClockController
    /\ Len(Get(timestampedReceivedControlTimeStamps)) < MaxLog
    /\ LET log == Recorded(Get(timestampedReceivedControlTimeStamps), wallTicks, cts)
       IN /\ timestampedReceivedControlTimeStamps' = Some(log)
          /\ wcSyncTimeCorrelations' =
                 IF sameList THEN Some(log) ELSE wcSyncTimeCorrelations
    /\ callbacksSince' = callbacksSince + 1
    /\ UNCHANGED <<libVars, argVars, syncTimelineClockController, captureVars,
                   detectVars, sameList, wallTicks, pc, cap, device, lastOp>>

\* ------------------------------------------------------------------------
\* The capture device (arduino.capture, arduino.bulkTransfer)
\* ------------------------------------------------------------------------
\* the capture and transfer requests among the calls of a log
Requests(log) == SelectSeq(log, LAMBDA e : e.req \in {"capture", "bulkTransfer"})

\* what arduino.capture returns when asked at wall clock time w, reporting
\* blocks millisecond blocks
DeviceWindow(w, blocks) ==
    [dueStartTimeUsecs |-> 1000 * w, dueFinishTimeUsecs |-> 1000 * (w + blocks),
     nMilliBlocks |-> blocks,
     timeDataPre |-> [asked |-> w, taken |-> "pre"],
     timeDataPost |-> [asked |-> w, taken |-> "post"]]

\* the raw buffers arduino.bulkTransfer can return: the device's layout for
\* the pins of the request, exact or off by one byte
DeviceBuffers(pins, blocks) ==
    LET full == Interleave([p \in ActivePins(pins) |-> [k \in 1..blocks |-> <<255, 0>>]],
                           1, blocks)
    IN {full, Append(full, 0)} \cup
       (IF full = <<>> THEN {} ELSE {SubSeq(full, 1, Len(full) - 1)})

\* ------------------------------------------------------------------------
\* Measurer.capture, in the steps between which the feed's callback can run
\* ------------------------------------------------------------------------
\* capture() with the test of line 172 dropped
EntersCaptureAlways(n) == TRUE

\* line 172: if self.nActivePins > 0
EntersCapture(n) == n > 0

\* lines 172-174: nothing to do without active pins; otherwise the master
\* takes its first snapshot
CaptureBegin ==
    /\ sess = "live" /\ pc = "idle"
    /\ IF EntersCapture(nActivePins)
         THEN /\ pc' = "arduino.capture"
              /\ cap' = [NoLocals EXCEPT !.correlationPre =
                            IF role = "master" THEN Some(snapShot(wallTicks)) ELSE None]
              /\ device' = IF role = "master"
                             THEN <<[req |-> "snapShot", arg |-> wallTicks]>>
                             ELSE <<>>
              /\ lastOp' = Call("capture", "running")
         ELSE /\ pc' = "idle"
              /\ cap' = NoLocals
              /\ device' = <<>>
              /\ lastOp' = Call("capture", "ok")
    /\ callbacksSince' = 0
    /\ UNCHANGED <<libVars, argVars, feedVars, captureVars, detectVars, corrVars,
                   wallTicks>>

\* line 340: arduino.capture(f, wallClock)
ArduinoCapture ==
    /\ pc = "arduino.capture"
    /\ \E blocks \in {MaxBlocks} :
          /\ cap' = [cap EXCEPT !.ret = Some(DeviceWindow(wallTicks, blocks))]
          /\ device' = Append(device, [req |-> "capture",
                                       arg |-> DeviceWindow(wallTicks, blocks)])
    /\ pc' = "arduino.bulkTransfer"
    /\ UNCHANGED callbacksSince
    /\ UNCHANGED <<libVars, argVars, feedVars, captureVars, detectVars, corrVars,
                   wallTicks, lastOp>>

\* lines 341-343 and 175-177: the bulk transfer, repackageSamples, and the
\* assignment of the returned tuple; an exception of repackageSamples leaves
\* capture() before anything is assigned
TransferAndPackage ==
    /\ pc = "arduino.bulkTransfer"
    /\ \E samples \in DeviceBuffers(pinsToMeasure, Get(cap.ret).nMilliBlocks) :
          LET r == repackageSamples(pinsToMeasure, Get(cap.ret).nMilliBlocks, samples)
          IN /\ device' = Append(device, [req |-> "bulkTransfer", arg |-> samples])
             /\ IF r.outcome = "ok"
                  THEN /\ channels' = Some(r.channels)
                       /\ dueStartTimeUsecs' = Some(Get(cap.ret).dueStartTimeUsecs)
                       /\ dueFinishTimeUsecs' = Some(Get(cap.ret).dueFinishTimeUsecs)
                       /\ wcAcReqResp' = Some([pre |-> Get(cap.ret).timeDataPre,
                                               post |-> Get(cap.ret).timeDataPost])
                       /\ cap' = [cap EXCEPT !.samples = Some(samples)]
                       /\ pc' = "correlations"
                       /\ lastOp' = lastOp
                  ELSE /\ UNCHANGED captureVars
                       /\ cap' = NoLocals
                       /\ pc' = "idle"
                       /\ lastOp' = Call("capture", r.outcome)
    /\ callbacksSince' = IF lastOp' = lastOp THEN callbacksSince ELSE 0
    /\ UNCHANGED <<libVars, argVars, feedVars, detectVars, corrVars,
                   wallTicks>>

\* line 182 with a copy of the list taken instead
BindsCopy(r) == FALSE

\* line 182 binds wcSyncTimeCorrelations to the list object that
\* timestampedReceivedControlTimeStamps is bound to
BindsSameList(r) == r = "client"

\* the correlation list of the master with the snapshots the other way round
MasterCorrelationsReversed(correlationPre, correlationPost) ==
    <<correlationPost, correlationPre>>

\* line 180
MasterCorrelations(correlationPre, correlationPost) ==
    <<correlationPre, correlationPost>>

\* lines 178-182: the master takes its second snapshot and stores the pair;
\* the client stores the feed's list (AttributeError when no controller was
\* ever set)
CaptureFinish ==
    /\ pc = "correlations"
    /\ pc' = "idle"
    /\ cap' = NoLocals
    /\ IF role = "master"
         THEN /\ wcSyncTimeCorrelations' =
                    Some(MasterCorrelations(Get(cap.correlationPre), snapShot(wallTicks)))
              /\ sameList' = FALSE
              /\ device' = Append(device, [req |-> "snapShot", arg |-> wallTicks])
              /\ lastOp' = Call("capture", "ok")
         ELSE IF role # "client"
                THEN /\ lastOp' = Call("capture", "ok")
                     /\ UNCHANGED <<corrVars, device>>
                ELSE IF timestampedReceivedControlTimeStamps = None
                       THEN /\ lastOp' = Call("capture", "AttributeError")
                            /\ UNCHANGED <<corrVars, device>>
                       ELSE /\ wcSyncTimeCorrelations' = timestampedReceivedControlTimeStamps
                            /\ sameList' = BindsSameList(role)
                            /\ lastOp' = Call("capture", "ok")
                            /\ device' = device
    /\ callbacksSince' = 0
    /\ UNCHANGED <<libVars, argVars, feedVars, captureVars, detectVars,
                   wallTicks>>

\* ------------------------------------------------------------------------
\* Measurer.detectBeepsAndFlashes
\* ------------------------------------------------------------------------
\* lines 198-199: attach the duration hints, in the order of the keys;
\* a key outside pinMap raises KeyError and a key whose slot holds None
\* raises TypeError, after the earlier keys' channels were changed
RECURSIVE AttachHints(_, _, _)
AttachHints(chs, keys, k) ==
    IF k > Len(keys) THEN [outcome |-> "ok", channels |-> chs]
    ELSE IF keys[k] \notin DOMAIN pinMap
           THEN [outcome |-> "KeyError", channels |-> chs]
           ELSE IF chs[pinMap[keys[k]] + 1] = None
                  THEN [outcome |-> "TypeError", channels |-> chs]
                  ELSE AttachHints(
                          [chs EXCEPT ![pinMap[keys[k]] + 1] =
                              Some([Get(@) EXCEPT !.eventDuration = Some(DurationFor(keys[k]))])],
                          keys, k + 1)

\* MeasuredChannels that never looks at the first slot
RECURSIVE MeasuredChannelsSkippingFirst(_, _)
MeasuredChannelsSkippingFirst(chs, k) ==
    IF k > Len(chs) THEN <<>>
    ELSE (IF chs[k] = None \/ k = 1 THEN <<>> ELSE <<Get(chs[k])>>)
         \o MeasuredChannelsSkippingFirst(chs, k + 1)

\* lines 202-205: the entries of self.channels that are not None, in order
RECURSIVE MeasuredChannels(_, _)
MeasuredChannels(chs, k) ==
    IF k > Len(chs) THEN <<>>
    ELSE (IF chs[k] = None THEN <<>> ELSE <<Get(chs[k])>>) \o MeasuredChannels(chs, k + 1)

\* a detector that resolves against an empty correlation list without
\* complaint
runDetectionTolerant(correlations, measuredChannels, obs) ==
    [outcome |-> "ok",
     timings |-> [k \in 1..Len(measuredChannels) |->
                     [pinName |-> measuredChannels[k].pinName, observed |-> obs[k]]]]

\* analyse.runDetection over a detect.BeepFlashDetector: one result per
\* measured channel, in order, obs[k] being the event times detected on the
\* k-th; an empty correlation list cannot be resolved against
runDetection(correlations, measuredChannels, obs) ==
    IF correlations = <<>>
      THEN [outcome |-> "ClockDomainError", timings |-> <<>>]
      ELSE [outcome |-> "ok",
            timings |-> [k \in 1..Len(measuredChannels) |->
                            [pinName |-> measuredChannels[k].pinName, observed |-> obs[k]]]]

\* lines 213-216 with the results that detected nothing left out
RECURSIVE PackageResultsNonEmpty(_, _)
PackageResultsNonEmpty(timings, expected) ==
    IF timings = <<>> THEN <<>>
    ELSE (IF timings[1].observed = <<>> THEN <<>>
          ELSE <<[pinName |-> timings[1].pinName, observed |-> timings[1].observed,
                  expected |-> expected[timings[1].pinName]]>>)
         \o PackageResultsNonEmpty(Tail(timings), expected)

\* lines 213-216: one entry per result of the detection
PackageResults(timings, expected) ==
    [k \in 1..Len(timings) |->
        [pinName |-> timings[k].pinName, observed |-> timings[k].observed,
         expected |-> expected[timings[k].pinName]]]

\* a call of detectBeepsAndFlashes that reached analyse.runDetection, with
\* the channels it handed over
DetectorCall(outcome, measuredChannels) ==
    [op |-> "detectBeepsAndFlashes", outcome |-> outcome,
     detail |-> Some(measuredChannels)]

detectBeepsAndFlashes ==
    /\ sess = "live" /\ pc = "idle"
    /\ IF channels = None
         THEN /\ lastOp' = Call("detectBeepsAndFlashes", "AttributeError")
              /\ UNCHANGED <<channels, detectVars>>
         ELSE LET hinted == AttachHints(Get(channels), eventDurations, 1)
                  measuredChannels == MeasuredChannels(hinted.channels, 1)
              IN /\ channels' = Some(hinted.channels)
                 /\ IF hinted.outcome # "ok"
                      THEN /\ lastOp' = Call("detectBeepsAndFlashes", hinted.outcome)
                           /\ UNCHANGED detectVars
                      ELSE IF wcSyncTimeCorrelations = None
                             THEN /\ lastOp' = Call("detectBeepsAndFlashes", "AttributeError")
                                  /\ UNCHANGED detectVars
                             ELSE \E obs \in [1..Len(measuredChannels) -> ObservedChoices] :
                                    LET d == runDetection(Get(wcSyncTimeCorrelations),
                                                          measuredChannels, obs)
                                    IN IF d.outcome # "ok"
                                         THEN /\ lastOp' = DetectorCall(d.outcome, measuredChannels)
                                              /\ UNCHANGED detectVars
                                         ELSE /\ observedTimings' = Some(d.timings)
                                              /\ testPackage' = Some(PackageResults(d.timings, expectedTimings))
                                              /\ lastOp' = DetectorCall("ok", measuredChannels)
    /\ callbacksSince' = 0
    /\ UNCHANGED <<libVars, argVars, feedVars, dueStartTimeUsecs,
                   dueFinishTimeUsecs, wcAcReqResp, corrVars, wallTicks, pc, cap,
                   device>>

\* ------------------------------------------------------------------------
\* Measurer.getComparisonChannels
\* ------------------------------------------------------------------------
\* line 227: return self.testPackage, an attribute that exists only once a
\* detection pass has assigned it
getComparisonChannels ==
    /\ sess = "live" /\ pc = "idle"
    /\ lastOp' = [op |-> "getComparisonChannels",
                  outcome |-> IF testPackage = None THEN "AttributeError" ELSE "ok",
                  detail |-> testPackage]
    /\ callbacksSince' = 0
    /\ UNCHANGED <<libVars, argVars, feedVars, captureVars, detectVars, corrVars,
                   wallTicks, pc, cap, device>>

\* ------------------------------------------------------------------------
\* Measurer.doComparison
\* ------------------------------------------------------------------------
\* sum of the entries of a sequence of integers
RECURSIVE Sum(_)
Sum(q) == IF q = <<>> THEN 0 ELSE q[1] + Sum(Tail(q))

\* the differences observed[i] - expected[k+i] for start offset k (0-based)
Diffs(observed, expected, k) ==
    [i \in 1..Len(observed) |-> observed[i] - expected[k + i]]

\* M * M times the population variance of a sequence of M integers
ScaledVariance(d) ==
    Len(d) * Sum([i \in 1..Len(d) |-> d[i] * d[i]]) - Sum(d) * Sum(d)

\* error bound attached to every difference
ErrorBound == 2

\* a comparator that keeps the last of the offsets of minimum variance
analyseDoComparisonLastTie(observed, expected) ==
    LET offsets == 0..(Len(expected) - Len(observed))
        best == CHOOSE k \in offsets :
                   \A j \in offsets :
                      \/ ScaledVariance(Diffs(observed, expected, k))
                           < ScaledVariance(Diffs(observed, expected, j))
                      \/ /\ ScaledVariance(Diffs(observed, expected, k))
                              = ScaledVariance(Diffs(observed, expected, j))
                         /\ k >= j
        d == Diffs(observed, expected, best)
    IN [matchIndex |-> best, expected |-> expected,
        diffsAndErrors |-> [i \in 1..Len(d) |-> <<d[i], ErrorBound>>]]

\* analyse.doComparison: the start offset of minimum variance (the smallest
\* on ties), the expected times, and the (difference, error bound) pairs
analyseDoComparison(observed, expected) ==
    LET offsets == 0..(Len(expected) - Len(observed))
        best == CHOOSE k \in offsets :
                   \A j \in offsets :
                      \/ ScaledVariance(Diffs(observed, expected, k))
                           < ScaledVariance(Diffs(observed, expected, j))
                      \/ /\ ScaledVariance(Diffs(observed, expected, k))
                              = ScaledVariance(Diffs(observed, expected, j))
                         /\ k <= j
        d == Diffs(observed, expected, best)
    IN [matchIndex |-> best, expected |-> expected,
        diffsAndErrors |-> [i \in 1..Len(d) |-> <<d[i], ErrorBound>>]]

\* the division truncated to a whole number
DividedByTruncating(x, rate) == <<x \div rate, 1>>

\* x / syncClockTickRate, kept as the fraction <<numerator, denominator>>
DividedBy(x, rate) == <<x, rate>>

\* the test of line 248 without its second half
IsDubiousLongerOnly(observed, expected) ==
    Len(observed) - Len(expected) > 0

\* line 248
IsDubious(observed, expected) ==
    (Len(observed) - Len(expected) > 0) \/ Len(observed) = 0

\* channels a caller can put together itself
CallerChannels ==
    {[pinName |-> "LIGHT_1", observed |-> <<131, 141>>, expected |-> <<100, 130, 140>>]}

\* the channels doComparison is called with: the entries handed out by
\* getComparisonChannels, or a caller's own
ComparableChannels ==
    (IF IsSet(testPackage) THEN Range(Get(testPackage)) ELSE {}) \cup CallerChannels

\* what doComparison does with a channel: raise DubiousInput, or invoke the
\* comparator and convert its result to seconds
doComparisonResult(channel) ==
    IF IsDubious(channel.observed, channel.expected)
      THEN [channel |-> channel, outcome |-> "DubiousInput", invoked |-> FALSE,
            returned |-> None]
      ELSE LET r == analyseDoComparison(channel.observed, channel.expected)
               expectedSecs ==
                   [i \in 1..Len(r.expected) |->
                       DividedBy(r.expected[i] - videoStartTicks, syncClockTickRate)]
               diffsAndErrorsSecs ==
                   [i \in 1..Len(r.diffsAndErrors) |->
                       <<DividedBy(r.diffsAndErrors[i][1], syncClockTickRate),
                         DividedBy(r.diffsAndErrors[i][2], syncClockTickRate)>>]
           IN [channel |-> channel, outcome |-> "ok", invoked |-> TRUE,
               returned |-> Some(<<r.matchIndex, expectedSecs, diffsAndErrorsSecs>>)]

\* doComparison that drops the channel it could not compare from testPackage
doComparisonDropping(channel) ==
    /\ sess = "live" /\ pc = "idle"
    /\ LET r == doComparisonResult(channel)
       IN lastOp' = [op |-> "doComparison", outcome |-> r.outcome, detail |-> Some(r)]
    /\ testPackage' =
          IF IsSet(testPackage) /\ lastOp'.outcome = "DubiousInput"
            THEN Some(SelectSeq(Get(testPackage), LAMBDA c : c # channel))
            ELSE testPackage
    /\ callbacksSince' = 0
    /\ UNCHANGED <<libVars, argVars, feedVars, captureVars, observedTimings, corrVars,
                   wallTicks, pc, cap, device>>

doComparison(channel) ==
    /\ sess = "live" /\ pc = "idle"
    /\ LET r == doComparisonResult(channel)
       IN lastOp' = [op |-> "doComparison", outcome |-> r.outcome, detail |-> Some(r)]
    /\ callbacksSince' = 0
    /\ UNCHANGED <<libVars, argVars, feedVars, captureVars, detectVars, corrVars,
                   wallTicks, pc, cap, device>>

\* ------------------------------------------------------------------------
\* Specification of a measurement session
\* ------------------------------------------------------------------------
Init == RepackageIdle /\ GenIdle /\ SessionNone

\* the constructor called with any of the arguments above
Constructs ==
    \E r \in Roles, pins \in SessionPinLists, durs \in EventDurationKeys :
       \E reported \in ReportedCounts(pins) : Construct(r, pins, durs, reported)

\* the clock controller calls back
Callback == \E cts \in LatestCts(wallTicks) : ctsRecorder(cts)

\* the caller compares a channel
Compares == \E channel \in ComparableChannels : doComparison(channel)

\* the feed of these sessions: a controller is attached once, and its
\* callback records into an empty log only
OneCallback ==
    /\ timestampedReceivedControlTimeStamps = Some(<<>>)
    /\ Callback
OneController == ~syncTimelineClockController /\ setSyncTimeLinelockController

Next ==
    \/ Constructs
    \/ Tick
    \/ OneController
    \/ OneCallback
    \/ CaptureBegin
    \/ ArduinoCapture
    \/ TransferAndPackage
    \/ CaptureFinish
    \/ detectBeepsAndFlashes
    \/ getComparisonChannels
    \/ Compares

Spec == Init /\ [][Next]_vars

\* ------------------------------------------------------------------------
\* Specification of a session in the consumer role with its protocol feed
\* ------------------------------------------------------------------------
\* the state Measurer("client", ["LIGHT_0"], ...) returns in, the device
\* having reported one active pin
InitFeed ==
    /\ RepackageIdle
    /\ GenIdle
    /\ sess = "live"
    /\ role = "client" /\ pinsToMeasure = <<"LIGHT_0">>
    /\ expectedTimings = ExpectedTimings(<<"LIGHT_0">>)
    /\ eventDurations = <<"LIGHT_0">> /\ nActivePins = 1
    /\ syncTimelineClockController = FALSE
    /\ timestampedReceivedControlTimeStamps = None
    /\ wcSyncTimeCorrelations = None /\ sameList = FALSE
    /\ channels = None /\ dueStartTimeUsecs = None /\ dueFinishTimeUsecs = None
    /\ wcAcReqResp = None /\ observedTimings = None /\ testPackage = None
    /\ wallTicks = 0 /\ pc = "idle" /\ cap = NoLocals
    /\ device = <<[req |-> "samplePin", arg |-> 0], [req |-> "prepareToCapture", arg |-> 1]>>
    /\ lastOp = Call("construct", "live") /\ callbacksSince = 0

NextFeed ==
    \/ Tick
    \/ setSyncTimeLinelockController
    \/ Callback
    \/ CaptureBegin
    \/ ArduinoCapture
    \/ TransferAndPackage
    \/ CaptureFinish
    \/ detectBeepsAndFlashes
    \/ getComparisonChannels
    \/ Compares

SpecFeed == InitFeed /\ [][NextFeed]_vars

\* ------------------------------------------------------------------------
\* Specification of doComparison over the channels a caller can pass
\* ------------------------------------------------------------------------
\* event times of the generated channels, unevenly spaced
CompareTicks == {100, 110, 120, 140}

\* the strictly increasing sequences of at most n of these times
IncreasingSeqs(S, n) ==
    {q \in SeqsUpTo(S, n) : \A i \in 1..(Len(q) - 1) : q[i] < q[i + 1]}

\* expected [0.5, 1.0, 1.5, 2.0, 2.5] and observed [1.001, 1.501, 2.002]
\* seconds, in thousandths
ScenarioChannel ==
    [pinName |-> "LIGHT_0", observed |-> <<1001, 1501, 2002>>,
     expected |-> <<500, 1000, 1500, 2000, 2500>>]

\* the same observation against an expected pattern whose events are not
\* evenly spaced
UnevenScenarioChannel ==
    [pinName |-> "LIGHT_0", observed |-> <<1001, 1501, 2202>>,
     expected |-> <<500, 1000, 1500, 2200, 2500>>]

\* channel argument of doComparison
CompareInputs ==
    {[pinName |-> "LIGHT_0", observed |-> o, expected |-> e] :
        o \in IncreasingSeqs(CompareTicks, MaxObserved),
        e \in IncreasingSeqs(CompareTicks, MaxExpected)}
    \cup {ScenarioChannel, UnevenScenarioChannel}

InitCompare == InitFeed

NextCompare == \E channel \in CompareInputs : doComparison(channel)

SpecCompare == InitCompare /\ [][NextCompare]_vars

\* ========================================================================
\* Test sequence generator: frame timing in exact rational arithmetic
\* ========================================================================
\* fractions.Fraction(n, d): the pair <<numerator, denominator>> in lowest
\* terms with a positive denominator
Abs(x) == IF x < 0 THEN -x ELSE x

RECURSIVE GCD(_, _)
GCD(a, b) == IF b = 0 THEN Abs(a) ELSE GCD(b, a % b)

Fraction(n, d) ==
    LET g == GCD(Abs(n), Abs(d))
    IN IF d < 0 THEN <<(-n) \div g, (-d) \div g>> ELSE <<n \div g, d \div g>>

\* the arithmetic of Fraction, over the least common denominator
FractionSub(x, y) ==
    LET g == GCD(x[2], y[2])
    IN Fraction(x[1] * (y[2] \div g) - y[1] * (x[2] \div g), (x[2] \div g) * y[2])
FractionAdd(x, y) ==
    LET g == GCD(x[2], y[2])
    IN Fraction(x[1] * (y[2] \div g) + y[1] * (x[2] \div g), (x[2] \div g) * y[2])
FractionLess(x, y) ==
    LET g == GCD(x[2], y[2])
    IN x[1] * (y[2] \div g) < y[1] * (x[2] \div g)

\* an argument value with its Python type
IntArg(n) == [type |-> "int", val |-> n]
FloatArg(n) == [type |-> "float", val |-> n]

\* an exception with its message
Raised(kind, message) == [outcome |-> kind, message |-> message, value |-> None]
Returned(v) == [outcome |-> "ok", message |-> "", value |-> Some(v)]

\* MIN_FRAME_RATE = 0.1 and MAX_FRAME_RATE = 500.0, as fractions
MIN_FRAME_RATE == <<1, 10>>
MAX_FRAME_RATE == <<500, 1>>

\* validate_fps_rational with the two positivity tests in the other order
validate_fps_rationalDenFirst(fps_num, fps_den) ==
    IF fps_num.type # "int"
      THEN Raised("ValueError", "Frame rate numerator must be integer")
    ELSE IF fps_den.type # "int"
      THEN Raised("ValueError", "Frame rate denominator must be integer")
    ELSE IF fps_den.val <= 0
      THEN Raised("ValueError", "Frame rate denominator must be positive")
    ELSE IF fps_num.val <= 0
      THEN Raised("ValueError", "Frame rate numerator must be positive")
    ELSE IF FractionLess(<<fps_num.val, fps_den.val>>, MIN_FRAME_RATE)
      THEN Raised("ValueError", "Frame rate out of reasonable range (minimum)")
    ELSE IF ~FractionLess(<<fps_num.val, fps_den.val>>, MAX_FRAME_RATE)
      THEN Raised("ValueError", "Frame rate out of reasonable range (maximum)")
    ELSE Returned(None)

\* validate_fps_rational(fps_num, fps_den): returns None or raises
\* ValueError; fps_value = fps_num / fps_den is compared as the exact
\* quotient
validate_fps_rational(fps_num, fps_den) ==
    IF fps_num.type # "int"
      THEN Raised("ValueError", "Frame rate numerator must be integer")
    ELSE IF fps_den.type # "int"
      THEN Raised("ValueError", "Frame rate denominator must be integer")
    ELSE IF fps_num.val <= 0
      THEN Raised("ValueError", "Frame rate numerator must be positive")
    ELSE IF fps_den.val <= 0
      THEN Raised("ValueError", "Frame rate denominator must be positive")
    ELSE IF FractionLess(<<fps_num.val, fps_den.val>>, MIN_FRAME_RATE)
      THEN Raised("ValueError", "Frame rate out of reasonable range (minimum)")
    ELSE IF ~FractionLess(<<fps_num.val, fps_den.val>>, MAX_FRAME_RATE)
      THEN Raised("ValueError", "Frame rate out of reasonable range (maximum)")
    ELSE Returned(None)

\* frame_to_seconds counting the frames from 1
frame_to_secondsFromOne(frame_num, fps_num, fps_den) ==
    LET v == validate_fps_rational(fps_num, fps_den)
    IN IF v.outcome # "ok" THEN v
       ELSE IF frame_num < 0
         THEN Raised("ValueError", "Frame number must be non-negative")
         ELSE Returned(Fraction((frame_num + 1) * fps_den.val, fps_num.val))

\* frame_to_seconds(frame_num, fps_num, fps_den)
frame_to_seconds(frame_num, fps_num, fps_den) ==
    LET v == validate_fps_rational(fps_num, fps_den)
    IN IF v.outcome # "ok" THEN v
       ELSE IF frame_num < 0
         THEN Raised("ValueError", "Frame number must be non-negative")
         ELSE Returned(Fraction(frame_num * fps_den.val, fps_num.val))

\* seconds_to_frame with the frame number rounded up
seconds_to_frameCeiling(time_secs, fps_num, fps_den) ==
    LET v == validate_fps_rational(fps_num, fps_den)
    IN IF v.outcome # "ok" THEN v
       ELSE IF time_secs[1] < 0
         THEN Raised("ValueError", "Time must be non-negative")
         ELSE LET frame_exact == Fraction(time_secs[1] * fps_num.val,
                                          time_secs[2] * fps_den.val)
              IN Returned((frame_exact[1] + frame_exact[2]) \div frame_exact[2])

\* seconds_to_frame(time_secs, fps_num, fps_den) for time_secs a Fraction:
\* int() of the exact quotient
seconds_to_frame(time_secs, fps_num, fps_den) ==
    LET v == validate_fps_rational(fps_num, fps_den)
    IN IF v.outcome # "ok" THEN v
       ELSE IF time_secs[1] < 0
         THEN Raised("ValueError", "Time must be non-negative")
         ELSE LET frame_exact == Fraction(time_secs[1] * fps_num.val,
                                          time_secs[2] * fps_den.val)
              IN Returned(frame_exact[1] \div frame_exact[2])

\* calculate_frame_duration(fps_num, fps_den)
calculate_frame_duration(fps_num, fps_den) ==
    LET v == validate_fps_rational(fps_num, fps_den)
    IN IF v.outcome # "ok" THEN v
       ELSE Returned(Fraction(fps_den.val, fps_num.val))

\* calculate_sequence_duration(n_frames, fps_num, fps_den)
calculate_sequence_duration(n_frames, fps_num, fps_den) ==
    LET v == validate_fps_rational(fps_num, fps_den)
    IN IF v.outcome # "ok" THEN v
       ELSE IF n_frames < 0
         THEN Raised("ValueError", "Number of frames must be non-negative")
         ELSE IF n_frames = 0
           THEN Returned(Fraction(0, 1))
           ELSE Returned(Fraction(n_frames * fps_den.val, fps_num.val))

\* ------------------------------------------------------------------------
\* Test sequence generator: pulse timings of a bit
\* ------------------------------------------------------------------------
\* abs(fps_decimal - milli / 1000) < 0.1, on the exact quotient
NearDecimal(fps_num, fps_den, milli) ==
    Abs(1000 * fps_num - milli * fps_den) < 100 * fps_den

\* round(fps_decimal): to the nearest integer, a tie going to the even one
Round(fps_num, fps_den) ==
    LET q == fps_num \div fps_den
        r == fps_num % fps_den
    IN IF 2 * r < fps_den THEN q
       ELSE IF 2 * r > fps_den THEN q + 1
       ELSE IF q % 2 = 0 THEN q ELSE q + 1

\* the base frame rate chosen by createFpsBitTimingsFractional
BaseFps(fps_num, fps_den) ==
    IF NearDecimal(fps_num, fps_den, 23976) THEN 24
    ELSE IF NearDecimal(fps_num, fps_den, 29970) THEN 30
    ELSE IF NearDecimal(fps_num, fps_den, 47952) THEN 24
    ELSE IF NearDecimal(fps_num, fps_den, 59940) THEN 30
    ELSE IF NearDecimal(fps_num, fps_den, 119880) THEN 30
    ELSE LET base_fps == Round(fps_num, fps_den)
         IN IF base_fps > 60 THEN 30
            ELSE IF base_fps > 30
              THEN (IF base_fps <= 48 THEN 24 ELSE 30)
              ELSE base_fps

\* createFpsBitTimingsFractional(fps_num, fps_den): the dictionary
\* {0: [zero_timing], 1: [one_timing_1, one_timing_2]}, or the exception
createFpsBitTimingsFractional(fps_num, fps_den) ==
    LET v == validate_fps_rational(fps_num, fps_den)
    IN IF v.outcome # "ok" THEN v
       ELSE LET base_fps == BaseFps(fps_num.val, fps_den.val)
            IN IF 10 * base_fps = 0
                 THEN Raised("ZeroDivisionError", "Fraction(35, 0)")
                 ELSE Returned([bit \in {0, 1} |->
                         IF bit = 0
                           THEN <<Fraction(35, 10 * base_fps)>>
                           ELSE <<Fraction(35, 10 * base_fps),
                                  Fraction(95, 10 * base_fps)>>])

\* ------------------------------------------------------------------------
\* Specification of the generator's functions, each called on its own
\* ------------------------------------------------------------------------
\* frame rates as (numerator, denominator): the integer rates of the
\* original generator, NTSC rates, rates at and around the limits of the
\* accepted range, and pairs that are not positive
IntegerRates == {24, 25, 30, 48, 50, 60}
FramePairs ==
    {<<r, 1>> : r \in IntegerRates}
    \cup {<<24000, 1001>>, <<30000, 1001>>, <<50, 2>>, <<5, 1>>, <<12, 1>>,
          <<1, 10>>, <<1, 11>>, <<1, 4>>, <<499, 1>>, <<500, 1>>, <<1000, 2>>,
          <<0, 1>>, <<-1, 1>>, <<1, 0>>, <<25, -1>>, <<0, 0>>, <<-1, -1>>,
          <<0, -1>>}
NtscHdPairs == {<<48000, 1001>>, <<60000, 1001>>, <<120000, 1001>>}

\* the same pairs as typed arguments, and pairs with a float in them
FrameRateArgs(pairs) ==
    {<<IntArg(p[1]), IntArg(p[2])>> : p \in pairs}
    \cup {<<FloatArg(25), IntArg(1)>>, <<IntArg(25), FloatArg(1)>>,
          <<FloatArg(0), FloatArg(0)>>}

GenCall(fn, args) == [fn |-> fn, args |-> args]

CallCreateFpsBitTimings ==
    \E a \in FrameRateArgs(FramePairs \cup NtscHdPairs) :
       /\ genCall' = Some(GenCall("createFpsBitTimingsFractional", a))
       /\ genOut' = Some(createFpsBitTimingsFractional(a[1], a[2]))
       /\ UNCHANGED <<rpVars, sessionVars>>

\* ------------------------------------------------------------------------
\* Test sequence generator: event centre times
\* ------------------------------------------------------------------------
\* eventTimingGen.mls(bitLen): the maximal-length sequence of 2^bitLen - 1
\* bits of a linear feedback shift register that starts with all ones and
\* feeds back the exclusive or of its last two stages
RECURSIVE ShiftRegister(_, _)
ShiftRegister(state, steps) ==
    IF steps = 0 THEN <<>>
    ELSE LET n == Len(state)
             fb == (state[n] + state[n - 1]) % 2
         IN <<state[n]>> \o ShiftRegister(<<fb>> \o SubSeq(state, 1, n - 1), steps - 1)

mls(bitLen) == ShiftRegister([k \in 1..bitLen |-> 1], 2 ^ bitLen - 1)

\* eventTimingGen.encodeBitStreamAsPulseTimings(bitStream, bitInterval,
\* bitZeroTimings, bitOneTimings): for the n-th bit (from 0), each of the
\* bit's pulse offsets plus n bit intervals, in the order of the offsets
RECURSIVE encodeBitStreamAsPulseTimings(_, _, _, _, _)
encodeBitStreamAsPulseTimings(bitStream, n, bitInterval, bitZeroTimings, bitOneTimings) ==
    IF n >= Len(bitStream) THEN <<>>
    ELSE LET timings == IF bitStream[n + 1] = 0 THEN bitZeroTimings ELSE bitOneTimings
         IN [k \in 1..Len(timings) |-> FractionAdd(timings[k], <<n * bitInterval, 1>>)]
            \o encodeBitStreamAsPulseTimings(bitStream, n + 1, bitInterval,
                                             bitZeroTimings, bitOneTimings)

\* genEventCentreTimesFractional(seqBits, fps_num, fps_den), run to its
\* end: the list of the times yielded. Each time goes through float and
\* back through Fraction(...).limit_denominator(1000000), which gives back
\* the exact time for these denominators.
genEventCentreTimesFractional(seqBits, fps_num, fps_den) ==
    LET v == validate_fps_rational(fps_num, fps_den)
    IN IF v.outcome # "ok" THEN v
       ELSE LET bit_timings == createFpsBitTimingsFractional(fps_num, fps_den)
            IN IF bit_timings.outcome # "ok" THEN bit_timings
               ELSE Returned(encodeBitStreamAsPulseTimings(
                                mls(seqBits), 0, 1,
                                Get(bit_timings.value)[0], Get(bit_timings.value)[1]))

CallGenEventCentreTimes ==
    \E seqBits \in 2..MaxSeqBits, a \in FrameRateArgs(FramePairs) :
       /\ genCall' = Some(GenCall("genEventCentreTimesFractional", <<seqBits, a[1], a[2]>>))
       /\ genOut' = Some(genEventCentreTimesFractional(seqBits, a[1], a[2]))
       /\ UNCHANGED <<rpVars, sessionVars>>

\* frame numbers and frame counts, one of them negative
FrameNumbers == (-1)..MaxFrame

\* times handed to seconds_to_frame that no frame starts at, one negative
OtherTimes == {<<1, 3>>, <<5, 2>>, <<-1, 2>>}

CallValidateFpsRational ==
    \E a \in FrameRateArgs(FramePairs) :
       /\ genCall' = Some(GenCall("validate_fps_rational", a))
       /\ genOut' = Some(validate_fps_rational(a[1], a[2]))
       /\ UNCHANGED <<rpVars, sessionVars>>

CallFrameToSeconds ==
    \E n \in FrameNumbers, a \in FrameRateArgs(FramePairs) :
       /\ genCall' = Some(GenCall("frame_to_seconds", <<n, a[1], a[2]>>))
       /\ genOut' = Some(frame_to_seconds(n, a[1], a[2]))
       /\ UNCHANGED <<rpVars, sessionVars>>

\* seconds_to_frame called with the time frame_to_seconds has just
\* returned, or with another time
CallSecondsToFrame ==
    \E a \in FrameRateArgs(FramePairs) :
       \E t \in OtherTimes \cup
                (IF /\ IsSet(genCall) /\ Get(genCall).fn = "frame_to_seconds"
                    /\ Get(genOut).outcome = "ok"
                   THEN {Get(Get(genOut).value)} ELSE {}) :
          /\ genCall' = Some(GenCall("seconds_to_frame", <<t, a[1], a[2]>>))
          /\ genOut' = Some(seconds_to_frame(t, a[1], a[2]))
          /\ UNCHANGED <<rpVars, sessionVars>>

CallCalculateFrameDuration ==
    \E a \in FrameRateArgs(FramePairs) :
       /\ genCall' = Some(GenCall("calculate_frame_duration", a))
       /\ genOut' = Some(calculate_frame_duration(a[1], a[2]))
       /\ UNCHANGED <<rpVars, sessionVars>>

CallCalculateSequenceDuration ==
    \E n \in FrameNumbers, a \in FrameRateArgs(FramePairs) :
       /\ genCall' = Some(GenCall("calculate_sequence_duration", <<n, a[1], a[2]>>))
       /\ genOut' = Some(calculate_sequence_duration(n, a[1], a[2]))
       /\ UNCHANGED <<rpVars, sessionVars>>

\* ------------------------------------------------------------------------
\* Test sequence generator: frame rate parsing
\* ------------------------------------------------------------------------
\* a string is the sequence of its characters
DigitChars == {"0", "1", "2", "3", "4", "5", "6", "7", "8", "9"}

\* the value of a decimal digit
DigitVal(c) ==
    CASE c = "0" -> 0 [] c = "1" -> 1 [] c = "2" -> 2 [] c = "3" -> 3
      [] c = "4" -> 4 [] c = "5" -> 5 [] c = "6" -> 6 [] c = "7" -> 7
      [] c = "8" -> 8 [] c = "9" -> 9

\* int(s) of a string of decimal digits
RECURSIVE IntOf(_)
IntOf(s) ==
    IF s = <<>> THEN 0
    ELSE 10 * IntOf(SubSeq(s, 1, Len(s) - 1)) + DigitVal(s[Len(s)])

\* \d+ : one or more decimal digits
IsDigits(s) == s # <<>> /\ \A k \in 1..Len(s) : s[k] \in DigitChars

\* str.strip(): without its leading and trailing blanks
RECURSIVE Strip(_)
Strip(s) ==
    IF s = <<>> THEN s
    ELSE IF s[1] = " " THEN Strip(Tail(s))
    ELSE IF s[Len(s)] = " " THEN Strip(SubSeq(s, 1, Len(s) - 1))
    ELSE s

\* DECIMAL_TO_RATIONAL.get(s)
DECIMAL_TO_RATIONAL(s) ==
    IF s = <<"2", "3", ".", "9", "7", "6">> THEN Some(<<24000, 1001>>) ELSE
    IF s = <<"2", "9", ".", "9", "7">> THEN Some(<<30000, 1001>>) ELSE
    IF s = <<"5", "9", ".", "9", "4">> THEN Some(<<60000, 1001>>) ELSE
    IF s = <<"4", "7", ".", "9", "5", "2">> THEN Some(<<48000, 1001>>) ELSE
    IF s = <<"1", "1", "9", ".", "8", "8">> THEN Some(<<120000, 1001>>) ELSE
    IF s = <<"2", "3", ".", "9", "7", "6", "0">> THEN Some(<<24000, 1001>>) ELSE
    IF s = <<"2", "3", ".", "9", "7", "6", "0", "2", "3", "9", "7", "6">> THEN Some(<<24000, 1001>>) ELSE
    IF s = <<"2", "9", ".", "9", "7", "0">> THEN Some(<<30000, 1001>>) ELSE
    IF s = <<"2", "9", ".", "9", "7", "0", "0", "2", "9", "9", "7", "0">> THEN Some(<<30000, 1001>>) ELSE
    IF s = <<"5", "9", ".", "9", "4", "0">> THEN Some(<<60000, 1001>>) ELSE
    IF s = <<"5", "9", ".", "9", "4", "0", "0", "5", "9", "9", "4", "0">> THEN Some(<<60000, 1001>>) ELSE
    IF s = <<"2", "4", ".", "0">> THEN Some(<<24, 1>>) ELSE
    IF s = <<"2", "5", ".", "0">> THEN Some(<<25, 1>>) ELSE
    IF s = <<"3", "0", ".", "0">> THEN Some(<<30, 1>>) ELSE
    IF s = <<"4", "8", ".", "0">> THEN Some(<<48, 1>>) ELSE
    IF s = <<"5", "0", ".", "0">> THEN Some(<<50, 1>>) ELSE
    IF s = <<"6", "0", ".", "0">> THEN Some(<<60, 1>>) ELSE
    IF s = <<"1", "0", "0", ".", "0">> THEN Some(<<100, 1>>) ELSE
    IF s = <<"1", "2", "0", ".", "0">> THEN Some(<<120, 1>>) ELSE
    None

\* re.match(r'^(\d+)/(\d+)$', s): the two groups, or no match
RationalMatch(s) ==
    LET slashes == {k \in 1..Len(s) : s[k] = "/"}
    IN IF Cardinality(slashes) # 1 THEN None
       ELSE LET k == CHOOSE j \in slashes : TRUE
                g1 == SubSeq(s, 1, k - 1)
                g2 == SubSeq(s, k + 1, Len(s))
            IN IF IsDigits(g1) /\ IsDigits(g2) THEN Some(<<g1, g2>>) ELSE None

\* _validate_frame_rate_range(fps_value), fps_value being the quotient
\* of the pair
ValidateFrameRateRange(fps_value) ==
    IF FractionLess(fps_value, MIN_FRAME_RATE)
      THEN Raised("ValueError", "Frame rate out of reasonable range (minimum)")
    ELSE IF ~FractionLess(fps_value, MAX_FRAME_RATE)
      THEN Raised("ValueError", "Frame rate out of reasonable range (maximum)")
    ELSE Returned(None)

\* a decimal numeral "digits.digits": its two digit groups, or no match
DecimalMatch(s) ==
    LET dots == {k \in 1..Len(s) : s[k] = "."}
    IN IF Cardinality(dots) # 1 THEN None
       ELSE LET k == CHOOSE j \in dots : TRUE
                g1 == SubSeq(s, 1, k - 1)
                g2 == SubSeq(s, k + 1, Len(s))
            IN IF IsDigits(g1) /\ IsDigits(g2) THEN Some(<<g1, g2>>) ELSE None

\* float(fps_str) of a decimal numeral, kept as the exact fraction it writes
DecimalValue(groups) ==
    Fraction(IntOf(groups[1]) * 10 ^ Len(groups[2]) + IntOf(groups[2]),
             10 ^ Len(groups[2]))

\* abs(fps_value - round(fps_value)) < 1e-6
EffectivelyInteger(fps_value) ==
    Abs(fps_value[1] - Round(fps_value[1], fps_value[2]) * fps_value[2])
       <= (fps_value[2] - 1) \div 1000000

\* abs(fps_value - num / 1001.0) < 1e-3 for the NTSC rate num / 1001, which
\* lies strictly between two whole numbers
NearNtscRate(fps_value, num) ==
    /\ fps_value[1] \div fps_value[2] = num \div 1001
    /\ Abs(1001 * (fps_value[1] % fps_value[2]) - (num % 1001) * fps_value[2])
          <= (1001 * fps_value[2] - 1) \div 1000

\* Fraction.limit_denominator: the loop over the continued fraction of
\* n / d, then the closer of the two bounds (bound2 on a tie)
RECURSIVE LimitDenominatorLoop(_, _, _, _, _, _, _, _)
LimitDenominatorLoop(p0, q0, p1, q1, n, d, denominator, max_denominator) ==
    LET a == n \div d
        q2 == q0 + a * q1
    IN IF q2 > max_denominator
         THEN LET k == (max_denominator - q0) \div q1
              IN IF 2 * d * (q0 + k * q1) <= denominator
                   THEN Fraction(p1, q1)
                   ELSE Fraction(p0 + k * p1, q0 + k * q1)
         ELSE LimitDenominatorLoop(p1, q1, p0 + a * p1, q2, d, n - a * d,
                                   denominator, max_denominator)

limit_denominator(x, max_denominator) ==
    IF x[2] <= max_denominator THEN x
    ELSE LimitDenominatorLoop(0, 1, 1, 0, x[1], x[2], x[2], max_denominator)

\* lines 124-150: the decimal numeral fps_str as a rate
ParseDecimal(fps_str) ==
    LET fps_value == DecimalValue(Get(DecimalMatch(fps_str)))
        range == ValidateFrameRateRange(fps_value)
    IN IF range.outcome # "ok" THEN range
       ELSE IF EffectivelyInteger(fps_value)
         THEN Returned(<<Round(fps_value[1], fps_value[2]), 1>>)
       ELSE IF NearNtscRate(fps_value, 24000) THEN Returned(<<24000, 1001>>)
       ELSE IF NearNtscRate(fps_value, 30000) THEN Returned(<<30000, 1001>>)
       ELSE IF NearNtscRate(fps_value, 60000) THEN Returned(<<60000, 1001>>)
       ELSE IF NearNtscRate(fps_value, 48000) THEN Returned(<<48000, 1001>>)
       ELSE IF NearNtscRate(fps_value, 120000) THEN Returned(<<120000, 1001>>)
       ELSE Returned(limit_denominator(fps_value, 10000))

\* parse_frame_rate returning the pair as it was written
parse_frame_rateUnreduced(fps_input) ==
    LET fps_str == Strip(fps_input)
        m == RationalMatch(fps_str)
    IN IF IsSet(DECIMAL_TO_RATIONAL(fps_str))
         THEN Returned(Get(DECIMAL_TO_RATIONAL(fps_str)))
       ELSE IF IsSet(m)
         THEN LET numerator == IntOf(Get(m)[1])
                  denominator == IntOf(Get(m)[2])
              IN IF denominator = 0
                   THEN Raised("ValueError", "Invalid frame rate format: division by zero")
                   ELSE LET range == ValidateFrameRateRange(<<numerator, denominator>>)
                        IN IF range.outcome # "ok" THEN range
                           ELSE Returned(<<numerator, denominator>>)
       ELSE IF IsDigits(fps_str)
         THEN LET range == ValidateFrameRateRange(<<IntOf(fps_str), 1>>)
              IN IF range.outcome # "ok" THEN range
                 ELSE Returned(<<IntOf(fps_str), 1>>)
       ELSE IF IsSet(DecimalMatch(fps_str)) THEN ParseDecimal(fps_str)
       ELSE Raised("ValueError", "Invalid frame rate format")

\* parse_frame_rate(fps_input) for a string that is a key of
\* DECIMAL_TO_RATIONAL, has the form "a/b", is a string of digits, is a
\* decimal numeral "digits.digits", or is nothing float() accepts
parse_frame_rate(fps_input) ==
    LET fps_str == Strip(fps_input)
        m == RationalMatch(fps_str)
    IN IF IsSet(DECIMAL_TO_RATIONAL(fps_str))
         THEN Returned(Get(DECIMAL_TO_RATIONAL(fps_str)))
       ELSE IF IsSet(m)
         THEN LET numerator == IntOf(Get(m)[1])
                  denominator == IntOf(Get(m)[2])
              IN IF denominator = 0
                   THEN Raised("ValueError", "Invalid frame rate format: division by zero")
                   ELSE LET fraction == Fraction(numerator, denominator)
                            range == ValidateFrameRateRange(fraction)
                        IN IF range.outcome # "ok" THEN range
                           ELSE Returned(fraction)
       ELSE IF IsDigits(fps_str)
         THEN LET range == ValidateFrameRateRange(<<IntOf(fps_str), 1>>)
              IN IF range.outcome # "ok" THEN range
                 ELSE Returned(<<IntOf(fps_str), 1>>)
       ELSE IF IsSet(DecimalMatch(fps_str)) THEN ParseDecimal(fps_str)
       ELSE Raised("ValueError", "Invalid frame rate format")

\* digit strings with the numbers they write
Numerals ==
    {[text |-> <<"0">>, val |-> 0],
     [text |-> <<"1">>, val |-> 1],
     [text |-> <<"2">>, val |-> 2],
     [text |-> <<"1", "0">>, val |-> 10],
     [text |-> <<"1", "1">>, val |-> 11],
     [text |-> <<"2", "5">>, val |-> 25],
     [text |-> <<"0", "2", "4">>, val |-> 24],
     [text |-> <<"5", "0">>, val |-> 50],
     [text |-> <<"1", "0", "0">>, val |-> 100],
     [text |-> <<"4", "9", "9">>, val |-> 499],
     [text |-> <<"5", "0", "0">>, val |-> 500],
     [text |-> <<"1", "0", "0", "1">>, val |-> 1001],
     [text |-> <<"2", "0", "0", "2">>, val |-> 2002],
     [text |-> <<"2", "4", "0", "0", "0">>, val |-> 24000],
     [text |-> <<"3", "0", "0", "0", "0">>, val |-> 30000],
     [text |-> <<"4", "8", "0", "0", "0">>, val |-> 48000]}

\* inputs "a/b", and inputs of the other forms
RationalStrings == {a.text \o <<"/">> \o b.text : a, b \in Numerals}
\* decimal numerals outside DECIMAL_TO_RATIONAL
DecimalStrings ==
    {<<"4", "9", "9", ".", "9", "9", "9", "9", "9">>,
     <<"4", "9", "9", ".", "5">>, <<"5", "0", "0", ".", "5">>,
     <<"1", "2", ".", "3", "4", "5">>, <<"0", ".", "3", "3", "3", "3", "3">>,
     <<"2", "3", ".", "9", "7", "6", "5">>, <<"0", ".", "0", "9">>,
     <<"3", "0", ".", "0", "0">>}

OtherStrings ==
    {<<"2", "3", ".", "9", "7", "6">>, <<"2", "5", ".", "0">>, <<"2", "5">>,
     <<"0">>, <<"5", "0", "0">>, <<" ", "5", "0", "/", "2", " ">>,
     <<"1", "/">>, <<"/", "2">>, <<"1", "/", "2", "/", "3">>,
     <<"-", "1", "/", "2">>, <<"1", " ", "/", "2">>, <<"a">>, <<>>}

CallParseFrameRate ==
    \E s \in RationalStrings \cup DecimalStrings \cup OtherStrings :
       /\ genCall' = Some(GenCall("parse_frame_rate", <<s>>))
       /\ genOut' = Some(parse_frame_rate(s))
       /\ UNCHANGED <<rpVars, sessionVars>>

\* ------------------------------------------------------------------------
\* genFlashSequenceFractional (fractional_event_generation.py)
\* ------------------------------------------------------------------------
gapValue == <<0, 0, 0>>
flashValue == <<255, 255, 255>>

\* start_time <= frame_time <= end_time for one of the flash intervals
IsFlash(frame_time, flashCentreTimesSecs, flash_duration) ==
    \E i \in 1..Len(flashCentreTimesSecs) :
       LET half == Fraction(flash_duration[1], 2 * flash_duration[2])
           start_time == FractionSub(flashCentreTimesSecs[i], half)
           end_time == FractionAdd(flashCentreTimesSecs[i], half)
       IN /\ ~FractionLess(frame_time, start_time)
          /\ ~FractionLess(end_time, frame_time)

\* total_frames: int(frames_exact), one more when frames_exact is larger
TotalFrames(sequence_duration, fps_num, fps_den) ==
    LET frames_exact == Fraction(sequence_duration[1] * fps_num,
                                 sequence_duration[2] * fps_den)
        total_frames == frames_exact[1] \div frames_exact[2]
    IN IF frames_exact[1] > total_frames * frames_exact[2]
         THEN total_frames + 1 ELSE total_frames

\* genFlashSequenceFractional(flashCentreTimesSecs, idealFlashDurationSecs,
\* sequenceDurationSecs, fps_num, fps_den) with the durations given as
\* Fraction objects and the default colours: the list of what it yields
genFlashSequenceFractional(flashCentreTimesSecs, idealFlashDurationSecs, sequenceDurationSecs, fps_num, fps_den) ==
    LET v == validate_fps_rational(fps_num, fps_den)
    IN IF v.outcome # "ok" THEN v
       ELSE Returned(
              [i \in 1..TotalFrames(sequenceDurationSecs, fps_num.val, fps_den.val) |->
                 LET frame_time == Get(frame_to_seconds(i - 1, fps_num, fps_den).value)
                 IN IF IsFlash(frame_time, flashCentreTimesSecs,
                               idealFlashDurationSecs)
                      THEN flashValue ELSE gapValue])

\* rates the flash sequence is generated at
FlashRates == {<<25, 1>>, <<30000, 1001>>, <<0, 1>>}

\* h half frame periods of the rate p, as seconds
HalfPeriods(h, p) == Fraction(h * p[2], 2 * p[1])

\* centre lists: none, or one centre on a frame boundary or on the
\* midpoint of a frame; one list for a rate that is rejected
FlashCentres(p) ==
    IF p[1] > 0
      THEN {<<>>} \cup {<<HalfPeriods(h, p)>> : h \in 0..MaxFrame}
      ELSE {<<<<1, 2>>>>}

\* flash durations: half a frame period, one period and two
FlashDurations(p) ==
    IF p[1] > 0 THEN {HalfPeriods(h, p) : h \in {1, 2, 4}} ELSE {<<1, 25>>}

\* sequence durations: none, and the longest whole and half numbers of
\* frame periods
SequenceDurations(p) ==
    IF p[1] > 0
      THEN {HalfPeriods(h, p) : h \in {0, 2 * MaxFrame - 1, 2 * MaxFrame}}
      ELSE {<<1, 1>>}

CallGenFlashSequence ==
    \E p \in FlashRates :
       \E c \in FlashCentres(p), d \in FlashDurations(p),
          s \in SequenceDurations(p) :
          /\ genCall' = Some(GenCall("genFlashSequenceFractional",
                                     <<c, d, s, p[1], p[2]>>))
          /\ genOut' = Some(genFlashSequenceFractional(c, d, s, IntArg(p[1]),
                                                       IntArg(p[2])))
          /\ UNCHANGED <<rpVars, sessionVars>>

InitGen == RepackageIdle /\ GenIdle /\ SessionNone

NextGen ==
    \/ CallCreateFpsBitTimings
    \/ CallGenEventCentreTimes
    \/ CallValidateFpsRational
    \/ CallFrameToSeconds
    \/ CallSecondsToFrame
    \/ CallCalculateFrameDuration
    \/ CallCalculateSequenceDuration
    \/ CallParseFrameRate
    \/ CallGenFlashSequence

SpecGen == InitGen /\ [][NextGen]_vars

\* ------------------------------------------------------------------------
\* The command line of the generator (cli_fractional_integration.py)
\* ------------------------------------------------------------------------

\* the most options on one command line
MaxArgs == 2

\* BROADCAST_SHORTCUTS of cli_fractional_integration.py
BROADCAST_SHORTCUTS ==
    "ntsc-film" :> <<24000, 1001>> @@ "ntsc" :> <<30000, 1001>> @@
    "ntsc-hd" :> <<60000, 1001>> @@ "ntsc-4k" :> <<120000, 1001>> @@
    "pal" :> <<25, 1>> @@ "pal-hd" :> <<50, 1>> @@ "pal-4k" :> <<100, 1>> @@
    "film" :> <<24, 1>> @@ "film-hfr-48" :> <<48, 1>> @@
    "film-hfr-60" :> <<60, 1>> @@ "film-hfr-120" :> <<120, 1>>

\* BROADCAST_STANDARDS of frame_rate_parser.py
BROADCAST_STANDARDS ==
    "ntsc-film" :> <<24000, 1001>> @@ "ntsc" :> <<30000, 1001>> @@
    "ntsc-hd" :> <<60000, 1001>> @@ "ntsc-4k" :> <<120000, 1001>> @@
    "pal" :> <<25, 1>> @@ "pal-hd" :> <<50, 1>> @@ "pal-4k" :> <<100, 1>> @@
    "film" :> <<24, 1>> @@ "film-hfr-48" :> <<48, 1>> @@
    "film-hfr-60" :> <<60, 1>> @@ "film-hfr-120" :> <<120, 1>>

\* FORMAT_PRESETS: the frame rate and the size of each complete format
FORMAT_PRESETS ==
    "ntsc-sd" :> <<<<30000, 1001>>, <<720, 480>>>> @@
    "pal-sd" :> <<<<25, 1>>, <<720, 576>>>> @@
    "1080i50" :> <<<<25, 1>>, <<1920, 1080>>>> @@
    "1080i59.94" :> <<<<30000, 1001>>, <<1920, 1080>>>> @@
    "1080p25" :> <<<<25, 1>>, <<1920, 1080>>>> @@
    "1080p30" :> <<<<30, 1>>, <<1920, 1080>>>> @@
    "1080p50" :> <<<<50, 1>>, <<1920, 1080>>>> @@
    "1080p60" :> <<<<60, 1>>, <<1920, 1080>>>> @@
    "1080p59.94" :> <<<<60000, 1001>>, <<1920, 1080>>>> @@
    "720p50" :> <<<<50, 1>>, <<1280, 720>>>> @@
    "720p60" :> <<<<60, 1>>, <<1280, 720>>>> @@
    "4k50" :> <<<<50, 1>>, <<3840, 2160>>>> @@
    "4k60" :> <<<<60, 1>>, <<3840, 2160>>>> @@
    "4k59.94" :> <<<<60000, 1001>>, <<3840, 2160>>>> @@
    "cinema-2k" :> <<<<24, 1>>, <<2048, 1080>>>> @@
    "cinema-4k" :> <<<<24, 1>>, <<4096, 2160>>>> @@
    "cinema-4k-scope" :> <<<<24, 1>>, <<4096, 1716>>>> @@
    "cinema-4k-hfr" :> <<<<48, 1>>, <<4096, 2160>>>> @@
    "cinema-4k-hfr-60" :> <<<<60, 1>>, <<4096, 2160>>>> @@
    "imax-digital" :> <<<<24, 1>>, <<5120, 2700>>>>

\* RESOLUTION_PRESETS: width and height
RESOLUTION_PRESETS ==
    "sd-ntsc" :> <<720, 480>> @@ "sd-pal" :> <<720, 576>> @@
    "hd-720" :> <<1280, 720>> @@ "hd-1080" :> <<1920, 1080>> @@
    "uhd-4k" :> <<3840, 2160>> @@ "uhd-8k" :> <<7680, 4320>> @@
    "2k-flat" :> <<1998, 1080>> @@ "2k-scope" :> <<2048, 858>> @@
    "2k-full" :> <<2048, 1080>> @@ "4k-flat" :> <<3996, 2160>> @@
    "4k-scope" :> <<4096, 1716>> @@ "4k-full" :> <<4096, 2160>> @@
    "imax-digital" :> <<5120, 2700>>

\* get_resolution_preset(preset_name)
get_resolution_preset(preset_name) ==
    IF preset_name \notin DOMAIN RESOLUTION_PRESETS
      THEN Raised("ValueError", "Unknown resolution preset")
      ELSE Returned(RESOLUTION_PRESETS[preset_name])

\* get_format_preset(preset_name)
get_format_preset(preset_name) ==
    IF preset_name \notin DOMAIN FORMAT_PRESETS
      THEN Raised("ValueError", "Unknown format preset")
      ELSE Returned(FORMAT_PRESETS[preset_name])

\* get_broadcast_standard_fps(standard_name), for a name in lower case
\* without surrounding blanks
get_broadcast_standard_fps(standard_name) ==
    IF standard_name \notin DOMAIN BROADCAST_STANDARDS
      THEN Raised("ValueError", "Unknown broadcast standard")
      ELSE Returned(BROADCAST_STANDARDS[standard_name])

\* one option of the command line: the attribute it is stored in (dest),
\* the constant a store_const option stores, the text given to --fps
FpsOption(text) == [dest |-> "FPS_INPUT", const |-> "", value |-> text]
FpsShortcutOption(standard) ==
    [dest |-> "FPS_SHORTCUT", const |-> standard, value |-> <<>>]
PresetOption(preset) ==
    [dest |-> "FORMAT_PRESET", const |-> preset, value |-> <<>>]
SizeOption(text) == [dest |-> "SIZE_INPUT", const |-> "", value |-> text]
SizeShortcutOption(preset) ==
    [dest |-> "SIZE_SHORTCUT", const |-> preset, value |-> <<>>]

\* the mutually exclusive group an option was added to: fps_group holds
\* --fps and every --fps-<standard>, size_group --size and every
\* --size-<preset>, preset_group every --preset-<format>
GroupOf(option) ==
    IF option.dest = "FORMAT_PRESET" THEN "preset_group"
    ELSE IF option.dest \in {"SIZE_INPUT", "SIZE_SHORTCUT"} THEN "size_group"
    ELSE "fps_group"

\* the argparse action of an option: one for --fps, one for each shortcut
\* and one for each preset
ActionOf(option) == <<option.dest, option.const>>

\* what the last option stored in dest left there, None without one
StoredIn(args_list, dest) ==
    LET ks == {k \in 1..Len(args_list) : args_list[k].dest = dest}
    IN IF ks = {} THEN None
       ELSE LET last == CHOOSE k \in ks : \A j \in ks : j <= k
            IN IF dest \in {"FPS_INPUT", "SIZE_INPUT"}
                 THEN Some(args_list[last].value)
               ELSE Some(args_list[last].const)

\* parser.parse_args without the mutually exclusive groups
parse_argsNoGroups(args_list) ==
    Returned([FPS_INPUT |-> StoredIn(args_list, "FPS_INPUT"),
              FPS_SHORTCUT |-> StoredIn(args_list, "FPS_SHORTCUT"),
              SIZE_INPUT |-> StoredIn(args_list, "SIZE_INPUT"),
              SIZE_SHORTCUT |-> StoredIn(args_list, "SIZE_SHORTCUT"),
              FORMAT_PRESET |-> StoredIn(args_list, "FORMAT_PRESET")])

\* parser.parse_args(args_list): an option whose group has already seen
\* another action ends the parse in parser.error, which exits
parse_args(args_list) ==
    IF \E j, k \in 1..Len(args_list) :
          /\ j < k
          /\ GroupOf(args_list[j]) = GroupOf(args_list[k])
          /\ ActionOf(args_list[j]) # ActionOf(args_list[k])
      THEN Raised("SystemExit", "not allowed with argument")
      ELSE Returned([FPS_INPUT |-> StoredIn(args_list, "FPS_INPUT"),
                     FPS_SHORTCUT |-> StoredIn(args_list, "FPS_SHORTCUT"),
                     SIZE_INPUT |-> StoredIn(args_list, "SIZE_INPUT"),
                     SIZE_SHORTCUT |-> StoredIn(args_list, "SIZE_SHORTCUT"),
                     FORMAT_PRESET |-> StoredIn(args_list, "FORMAT_PRESET")])

\* a stored string that is neither None nor empty
Truthy(attribute, empty) == IsSet(attribute) /\ Get(attribute) # empty

\* re.match(r'^(\d+)x(\d+)$', s): the two groups, or no match
SizeMatch(s) ==
    LET xs == {k \in 1..Len(s) : s[k] = "x"}
    IN IF Cardinality(xs) # 1 THEN None
       ELSE LET k == CHOOSE j \in xs : TRUE
                g1 == SubSeq(s, 1, k - 1)
                g2 == SubSeq(s, k + 1, Len(s))
            IN IF IsDigits(g1) /\ IsDigits(g2) THEN Some(<<g1, g2>>) ELSE None

\* the size chosen from the size options
ProcessSize(parsed_args) ==
    IF Truthy(parsed_args.SIZE_INPUT, <<>>)
      THEN LET match == SizeMatch(Get(parsed_args.SIZE_INPUT))
           IN IF ~IsSet(match)
                THEN Raised("ValueError", "Invalid size format")
                ELSE Returned(<<IntOf(Get(match)[1]), IntOf(Get(match)[2])>>)
    ELSE IF Truthy(parsed_args.SIZE_SHORTCUT, "")
      THEN get_resolution_preset(Get(parsed_args.SIZE_SHORTCUT))
    ELSE Returned(<<854, 480>>)

\* the frame rate and size chosen from the parsed options
ProcessFrameRate(parsed_args) ==
    IF Truthy(parsed_args.FORMAT_PRESET, "")
      THEN get_format_preset(Get(parsed_args.FORMAT_PRESET))
    ELSE LET fps == IF Truthy(parsed_args.FPS_INPUT, <<>>)
                      THEN parse_frame_rate(Get(parsed_args.FPS_INPUT))
                    ELSE IF Truthy(parsed_args.FPS_SHORTCUT, "")
                      THEN get_broadcast_standard_fps(Get(parsed_args.FPS_SHORTCUT))
                    ELSE Returned(<<50, 1>>)
             size == ProcessSize(parsed_args)
         IN IF fps.outcome # "ok" THEN fps
            ELSE IF size.outcome # "ok" THEN size
            ELSE Returned(<<Get(fps.value), Get(size.value)>>)

\* parse_fractional_args(args_list) for a command line of frame rate,
\* size and preset options: the fps_rational, size, WINDOW_LEN and DURATION of the
\* namespace it returns
parse_fractional_args(args_list) ==
    LET parsed == parse_args(args_list)
    IN IF parsed.outcome # "ok" THEN parsed
       ELSE LET chosen == ProcessFrameRate(Get(parsed.value))
            IN IF chosen.outcome # "ok" THEN chosen
               ELSE LET fps_rational == Get(chosen.value)[1]
                        v == validate_fps_rational(IntArg(fps_rational[1]),
                                                   IntArg(fps_rational[2]))
                    IN IF v.outcome # "ok" THEN v
                       ELSE Returned([fps_rational |-> fps_rational,
                                      size |-> Get(chosen.value)[2],
                                      WINDOW_LEN |-> 7,
                                      DURATION |-> 2 ^ 7 - 1])

\* the --fps texts tried, each with the rate it writes (None: no rate
\* in range)
FpsTexts ==
    {[text |-> <<"2", "5">>, rate |-> Some(<<25, 1>>)],
     [text |-> <<"5", "0", "/", "2">>, rate |-> Some(<<25, 1>>)],
     [text |-> <<"2", "9", ".", "9", "7">>, rate |-> Some(<<30000, 1001>>)],
     [text |-> <<"1", "0", "0", "1">>, rate |-> None],
     [text |-> <<>>, rate |-> None]}

ShortcutsTried == {"pal", "ntsc", "film-hfr-120"}
PresetsTried == {"cinema-4k", "1080p59.94", "pal-sd"}

Options ==
    {FpsOption(t.text) : t \in FpsTexts}
      \cup {FpsShortcutOption(s) : s \in ShortcutsTried}
      \cup {PresetOption(p) : p \in PresetsTried}

\* the --size texts and --size-<preset> shortcuts tried
SizeTexts == {<<"6", "4", "0", "x", "4", "8", "0">>, <<"6", "4", "0">>}
SizeShortcutsTried == {"hd-1080"}

SizeOptions ==
    {SizeOption(t) : t \in SizeTexts}
      \cup {SizeShortcutOption(s) : s \in SizeShortcutsTried}
      \cup {PresetOption(p) : p \in PresetsTried}

\* command lines of frame rate and preset options, and command lines of
\* size and preset options
ArgLists ==
    UNION {[1..n -> Options] \cup [1..n -> SizeOptions] : n \in 0..MaxArgs}

CallParseFractionalArgs ==
    \E args_list \in ArgLists :
       /\ genCall' = Some(GenCall("parse_fractional_args", <<args_list>>))
       /\ genOut' = Some(parse_fractional_args(args_list))
       /\ UNCHANGED <<rpVars, sessionVars>>

InitArgs == RepackageIdle /\ GenIdle /\ SessionNone

NextArgs == CallParseFractionalArgs

SpecArgs == InitArgs /\ [][NextArgs]_vars

\* ========================================================================
\* Properties
\* ========================================================================

\* the call of repackageSamples has been made with known pins only
RepackCalled == IsSet(rpOut) /\ Range(rpPins) \subseteq PinNames

\* C8 (as claimed): whenever the raw buffer's length differs from
\* 2 x (active pins) x nMilliBlocks, shorter or longer, repackageSamples
\* fails instead of returning channels.
C8_AnyMismatchFails ==
    (RepackCalled /\ Len(rpSamples) # BytesNeeded(rpPins, rpBlocks))
        => Get(rpOut).outcome # "ok"

\* C8 (amended): repackageSamples returns channels exactly when the raw
\* buffer holds at least 2 x (active pins) x nMilliBlocks bytes, and then it
\* consumes exactly that many, giving each active pin nMilliBlocks max and
\* min readings and ignoring any excess; a shorter buffer fails with an
\* IndexError and no channels are returned.
C8_ConsumesExactlyOrIndexError ==
    RepackCalled =>
        LET need == BytesNeeded(rpPins, rpBlocks)
            out  == Get(rpOut)
        IN /\ (Len(rpSamples) >= need) =>
                  /\ out.outcome = "ok"
                  /\ out.consumed = need
                  /\ \A p \in ActivePins(rpPins) :
                        /\ Len(Get(out.channels[pinMap[p] + 1]).max) = rpBlocks
                        /\ Len(Get(out.channels[pinMap[p] + 1]).min) = rpBlocks
           /\ (Len(rpSamples) < need) =>
                  /\ out.outcome = "IndexError"
                  /\ out.channels = None

\* C8 witness: a buffer longer than needed was repackaged into channels of
\* two pins
C8_Witness ==
    /\ RepackCalled
    /\ Cardinality(ActivePins(rpPins)) = 2
    /\ rpBlocks = 2
    /\ Len(rpSamples) > BytesNeeded(rpPins, rpBlocks)
    /\ Get(rpOut).outcome = "ok"

\* C9: when the raw buffer is the interleaving, per sample interval, of one
\* (max, min) byte pair per active pin, every produced channel's max and min
\* lists equal that pin's synthetic max and min sequences, in order.
C9_RoundTrip ==
    (RepackCalled /\ rpSamples = Interleave(rpSynth, 1, rpBlocks)) =>
        /\ Get(rpOut).outcome = "ok"
        /\ \A p \in ActivePins(rpPins) :
              LET ch == Get(Get(rpOut).channels[pinMap[p] + 1])
              IN /\ ch.max = [k \in 1..rpBlocks |-> rpSynth[p][k][1]]
                 /\ ch.min = [k \in 1..rpBlocks |-> rpSynth[p][k][2]]

\* C9 witness: two pins, requested out of channel order, with differing
\* readings over two sample intervals, round-tripped
C9_Witness ==
    /\ RepackCalled
    /\ rpPins = <<"AUDIO_1", "LIGHT_0">>
    /\ rpBlocks = 2
    /\ rpSamples = Interleave(rpSynth, 1, rpBlocks)
    /\ rpSynth["AUDIO_1"] # rpSynth["LIGHT_0"]
    /\ rpSynth["LIGHT_0"][1] # rpSynth["LIGHT_0"][2]
    /\ Get(rpOut).outcome = "ok"

\* ------------------------------------------------------------------------
\* Properties of a session
\* ------------------------------------------------------------------------
CaptureReturned == lastOp = Call("capture", "ok")
DetectReturned == lastOp.op = "detectBeepsAndFlashes" /\ lastOp.outcome = "ok"

\* C1 (as claimed): in the consumer role the list capture() hands to the
\* detector holds the correlations recorded up to the return of capture(),
\* and callbacks that run after the return do not change it.
C1_HandedListFrozenAtReturn ==
    [][(role = "client" /\ CaptureReturned' /\ IsSet(wcSyncTimeCorrelations'))
          => IF lastOp = lastOp'
               THEN wcSyncTimeCorrelations' = wcSyncTimeCorrelations
               ELSE wcSyncTimeCorrelations' = timestampedReceivedControlTimeStamps']_vars

\* C1 (amended): in the consumer role capture() hands the detector the
\* live correlation log itself: at the return of capture() it holds exactly
\* the correlations recorded so far, and every callback that runs after the
\* return, before the main thread's next call, appends to what the detector
\* sees, the earlier entries staying a prefix.
C1_HandedListIsLiveLog ==
    [][(role = "client" /\ CaptureReturned' /\ IsSet(wcSyncTimeCorrelations'))
          => /\ wcSyncTimeCorrelations' = timestampedReceivedControlTimeStamps'
             /\ (lastOp = lastOp') =>
                   /\ IsSet(wcSyncTimeCorrelations)
                   /\ IsPrefix(Get(wcSyncTimeCorrelations), Get(wcSyncTimeCorrelations'))]_vars

\* C1 witness: a callback ran after capture() returned in the consumer role,
\* the handed list holding an entry from before and one from after
C1_Witness ==
    /\ role = "client" /\ CaptureReturned
    /\ callbacksSince = 1
    /\ IsSet(wcSyncTimeCorrelations)
    /\ Len(Get(wcSyncTimeCorrelations)) = 2

\* C2 (as claimed): no operation removes or alters a recorded entry: the
\* log's earlier contents are always a prefix of its current contents.
C2_LogOnlyGrows ==
    [][IsSet(timestampedReceivedControlTimeStamps)
          => /\ IsSet(timestampedReceivedControlTimeStamps')
             /\ IsPrefix(Get(timestampedReceivedControlTimeStamps),
                         Get(timestampedReceivedControlTimeStamps'))]_vars

\* C2 (amended): each ctsRecorder invocation appends exactly one entry
\* (the wall clock reading and the controller's latest timestamp) at the
\* end, capture, detectBeepsAndFlashes and doComparison leave the log as it
\* is, and only setSyncTimeLinelockController replaces the log, by a new
\* empty list.
C2_AppendOnlyUntilControllerSet ==
    [][IsSet(timestampedReceivedControlTimeStamps)
          => /\ (callbacksSince' = callbacksSince + 1) =>
                   \E cts \in LatestCts(wallTicks) :
                      timestampedReceivedControlTimeStamps' =
                          Some(Append(Get(timestampedReceivedControlTimeStamps),
                                      <<wallTicks, cts>>))
             /\ \/ timestampedReceivedControlTimeStamps' = timestampedReceivedControlTimeStamps
                \/ /\ callbacksSince' = callbacksSince + 1
                   /\ IsSet(timestampedReceivedControlTimeStamps')
                   /\ IsPrefix(Get(timestampedReceivedControlTimeStamps),
                               Get(timestampedReceivedControlTimeStamps'))
                \/ /\ lastOp' = Call("setSyncTimeLinelockController", "ok")
                   /\ timestampedReceivedControlTimeStamps' = Some(<<>>)]_vars

\* C2 witness: two callbacks at different times have been recorded and a
\* capture and a detection have run
C2_Witness ==
    /\ IsSet(timestampedReceivedControlTimeStamps)
    /\ Len(Get(timestampedReceivedControlTimeStamps)) = 2
    /\ Get(timestampedReceivedControlTimeStamps)[1] # Get(timestampedReceivedControlTimeStamps)[2]
    /\ DetectReturned

\* C3: in the master role with an active pin, capture() takes one snapshot,
\* then makes the device capture request and the bulk transfer, then takes
\* one more snapshot, and returns with the correlation list
\* [pre-snapshot, post-snapshot].
C3_MasterBracketsTransfer ==
    (sess = "live" /\ role = "master" /\ nActivePins > 0 /\ CaptureReturned)
        => /\ Len(device) = 4
           /\ device[1].req = "snapShot"
           /\ device[2].req = "capture"
           /\ device[3].req = "bulkTransfer"
           /\ device[4].req = "snapShot"
           /\ wcSyncTimeCorrelations =
                  Some(<<snapShot(device[1].arg), snapShot(device[4].arg)>>)

\* C3 witness: a master capture returned with two different snapshots
C3_Witness ==
    /\ sess = "live" /\ role = "master" /\ nActivePins > 0 /\ CaptureReturned
    /\ Get(wcSyncTimeCorrelations)[1] # Get(wcSyncTimeCorrelations)[2]

\* what a returned capture() leaves in the session, given its requests
HoldsOneWindow ==
    /\ Len(Requests(device)) = 2
    /\ Requests(device)[1].req = "capture"
    /\ Requests(device)[2].req = "bulkTransfer"
    /\ dueStartTimeUsecs = Some(Requests(device)[1].arg.dueStartTimeUsecs)
    /\ dueFinishTimeUsecs = Some(Requests(device)[1].arg.dueFinishTimeUsecs)
    /\ wcAcReqResp = Some([pre |-> Requests(device)[1].arg.timeDataPre,
                           post |-> Requests(device)[1].arg.timeDataPost])
    /\ channels = Some(repackageSamples(pinsToMeasure,
                                        Requests(device)[1].arg.nMilliBlocks,
                                        Requests(device)[2].arg).channels)

\* C4 (as claimed): every capture() of an accepted session, whatever the
\* number of requested pins, makes one capture request and then one bulk
\* transfer and returns holding one capture window and one set of channels.
C4_EveryCaptureOneWindow ==
    (sess = "live" /\ CaptureReturned) => HoldsOneWindow

\* C4 (amended): every capture() of an accepted session with at least one
\* active pin makes exactly one capture request followed by exactly one
\* bulk transfer, and when it returns the session holds that request's
\* window and the channels built from that transfer's buffer; with no
\* requested pin capture() makes no device request and stores nothing.
C4_OneWindowUnlessNoPins ==
    /\ (sess = "live" /\ CaptureReturned) =>
          IF nActivePins > 0
            THEN HoldsOneWindow
            ELSE /\ device = <<>>
                 /\ channels = None /\ dueStartTimeUsecs = None
                 /\ dueFinishTimeUsecs = None /\ wcAcReqResp = None
                 /\ wcSyncTimeCorrelations = None
    /\ (sess = "live" /\ nActivePins > 0 /\ lastOp.op = "capture"
          /\ lastOp.outcome \in {"IndexError", "AttributeError"}) =>
          /\ Len(Requests(device)) = 2
          /\ Requests(device)[1].req = "capture"
          /\ Requests(device)[2].req = "bulkTransfer"

\* C4 witness: a capture of two pins returned holding its window
C4_Witness ==
    /\ sess = "live" /\ CaptureReturned /\ nActivePins = 2
    /\ Cardinality(ActivePins(pinsToMeasure)) = 2
    /\ HoldsOneWindow

\* C5: construction succeeds only when the device reports as many active
\* pins as were requested; any other count raises ValueError after the pins
\* were activated, so a session that exists has nActivePins equal to
\* len(pinsToMeasure) all its life.
C5_CountMismatchRejected ==
    /\ sess = "live" => nActivePins = Len(pinsToMeasure)
    /\ sess = "ValueError" =>
          /\ nActivePins # Len(pinsToMeasure)
          /\ device = Append(activatePinReading(pinsToMeasure, 1, <<>>).sent,
                             [req |-> "prepareToCapture", arg |-> nActivePins])
    /\ (lastOp.op = "construct" /\ sess \in {"live", "ValueError"}) =>
          (sess = "live" <=> device[Len(device)].arg = Len(pinsToMeasure))

\* C5 witness: the device reported one pin more than requested and the
\* construction was refused after both pins were activated
C5_Witness ==
    /\ sess = "ValueError"
    /\ Len(pinsToMeasure) = 2
    /\ nActivePins = 3
    /\ Len(device) = 3

\* a doComparison call has just been made; its argument and what it did
Compared == lastOp.op = "doComparison"
ComparedChannel == Get(lastOp.detail).channel

\* C6: doComparison raises DubiousInput exactly when the observed list is
\* empty or longer than the expected list; then the comparator is not
\* invoked and nothing is returned, and for 0 < M <= N the comparator is
\* invoked and its result returned.
C6_DubiousInputExactly ==
    Compared =>
        LET m == Len(ComparedChannel.observed)
            n == Len(ComparedChannel.expected)
            did == Get(lastOp.detail)
        IN /\ (did.outcome = "DubiousInput") <=> ~(0 < m /\ m <= n)
           /\ (did.outcome = "DubiousInput") =>
                 (~did.invoked /\ did.returned = None)
           /\ (0 < m /\ m <= n) =>
                 (did.outcome = "ok" /\ did.invoked /\ IsSet(did.returned))

\* C6 witness: a channel with no observed events and a non-empty expected
\* list was refused
C6_Witness ==
    /\ Compared
    /\ ComparedChannel.observed = <<>>
    /\ ComparedChannel.expected # <<>>
    /\ lastOp.outcome = "DubiousInput"

\* a step of the main thread that is a doComparison call
ComparisonStep ==
    /\ lastOp'.op = "doComparison"
    /\ (lastOp' # lastOp \/ callbacksSince' < callbacksSince)

\* C7: doComparison, returning or raising DubiousInput, changes nothing of
\* the session (channels, capture window, correlation list and log,
\* testPackage and its channels, expected timings) so the comparison of the
\* other pins' channels is not affected.
C7_ComparisonChangesNothing ==
    [][ComparisonStep =>
          /\ UNCHANGED <<argVars, feedVars, captureVars, detectVars, corrVars>>
          /\ Get(lastOp'.detail).channel \in ComparableChannels']_vars

\* C7 witness: of the two channels of testPackage one has just been refused
\* with DubiousInput and the other can be compared
C7_Witness ==
    /\ Compared /\ lastOp.outcome = "DubiousInput"
    /\ IsSet(testPackage) /\ Len(Get(testPackage)) = 2
    /\ ComparedChannel \in Range(Get(testPackage))
    /\ \E c \in Range(Get(testPackage)) :
          c # ComparedChannel /\ doComparisonResult(c).outcome = "ok"

\* C10 (as claimed): after detectBeepsAndFlashes, testPackage has one entry
\* for each active pin with at least one detected event, and a pin whose
\* observed sequence is empty has no entry.
C10_EmptyObservedOmitted ==
    DetectReturned =>
        LET tp == Get(testPackage)
            final == Get(observedTimings)
            detected == {k \in 1..Len(final) : final[k].observed # <<>>}
        IN /\ Len(tp) = Cardinality(detected)
           /\ \A k \in detected :
                 \E j \in 1..Len(tp) :
                    tp[j] = [pinName |-> final[k].pinName,
                             observed |-> final[k].observed,
                             expected |-> expectedTimings[final[k].pinName]]
           /\ \A j \in 1..Len(tp) : tp[j].observed # <<>>

\* C10 (amended): after detectBeepsAndFlashes, testPackage has exactly one
\* entry {pinName, observed, expected} for each active pin, in channel
\* order, with the detection's result for the pin and the expectedTimings
\* given at construction for it; a pin for which nothing was detected
\* raises no error and keeps its entry, with an empty observed list.
C10_OneEntryPerMeasuredPin ==
    DetectReturned =>
        LET tp == Get(testPackage)
            final == Get(observedTimings)
            measured == MeasuredChannels(Get(channels), 1)
        IN /\ Len(tp) = Len(measured)
           /\ Len(final) = Len(measured)
           /\ \A k \in 1..Len(tp) :
                 /\ tp[k].pinName = measured[k].pinName
                 /\ tp[k].observed = final[k].observed
                 /\ tp[k].expected = expectedTimings[measured[k].pinName]

\* C10 witness: of two measured pins one had events detected and the other
\* none, and both have their entry
C10_Witness ==
    /\ DetectReturned
    /\ Len(Get(testPackage)) = 2
    /\ Get(testPackage)[1].observed = <<>>
    /\ Get(testPackage)[2].observed # <<>>
    /\ Get(testPackage)[1].expected # Get(testPackage)[2].expected

\* a step of the main thread that is a detectBeepsAndFlashes call
DetectionStep ==
    /\ lastOp'.op = "detectBeepsAndFlashes"
    /\ (lastOp' # lastOp \/ callbacksSince' < callbacksSince)

\* C11: in the consumer role, when the correlation list handed to the
\* detector is empty (no callback has recorded a correlation into the log
\* capture() bound), detectBeepsAndFlashes fails with the clock-domain
\* error, and it leaves observedTimings and testPackage as they were: the
\* pass produces no testPackage.
C11_EmptyLogIsClockDomainError ==
    [][(/\ DetectionStep
        /\ role = "client"
        /\ wcSyncTimeCorrelations = Some(<<>>)
        /\ IsSet(channels)
        /\ AttachHints(Get(channels), eventDurations, 1).outcome = "ok")
          => /\ lastOp'.op = "detectBeepsAndFlashes"
             /\ lastOp'.outcome = "ClockDomainError"
             /\ UNCHANGED detectVars]_vars

\* C11 witness: a consumer session whose capture returned with an empty
\* log has run its detection, which failed, and holds no testPackage
C11_Witness ==
    /\ role = "client"
    /\ lastOp.op = "detectBeepsAndFlashes"
    /\ lastOp.outcome = "ClockDomainError"
    /\ wcSyncTimeCorrelations = Some(<<>>)
    /\ IsSet(channels)
    /\ testPackage = None

\* a construction has just been attempted with a pin list holding a name
\* that is none of LIGHT_0, LIGHT_1, AUDIO_0, AUDIO_1
ConstructedWithUnknownPin ==
    /\ lastOp.op = "construct"
    /\ ~(Range(pinsToMeasure) \subseteq PinNames)

\* C12 (as claimed): an unrecognised pin identifier is rejected with
\* ValueError everywhere: isAudio raises it, repackageSamples raises it and
\* returns no channels for a pin list holding the name, and the construction
\* of a Measurer whose pin list holds it fails with ValueError before the
\* device is asked to prepare a capture.
C12_UnknownPinIsValueError ==
    /\ isAudio(UnknownPin).outcome = "ValueError"
    /\ \A pins \in {<<UnknownPin>>, <<"LIGHT_0", UnknownPin>>} :
          /\ repackageSamples(pins, 1, <<9, 7>>).outcome = "ValueError"
          /\ repackageSamples(pins, 1, <<9, 7>>).channels = None
    /\ ConstructedWithUnknownPin =>
          /\ sess = "ValueError"
          /\ \A k \in 1..Len(device) : device[k].req # "prepareToCapture"

\* the sum over the pairs i < j of (d[i] - d[j])^2: M * M times the
\* population variance of the M values of d
PairwiseSpread(d) ==
    Sum([n \in 1..(Len(d) * Len(d)) |->
            LET i == ((n - 1) \div Len(d)) + 1
                j == ((n - 1) % Len(d)) + 1
            IN IF i < j THEN (d[i] - d[j]) * (d[i] - d[j]) ELSE 0])

\* the differences of the observed times from the expected ones at offset k
OffsetDiffs(channel, k) ==
    [i \in 1..Len(channel.observed) |-> channel.observed[i] - channel.expected[k + i]]

\* what doComparison returns for observed of length M and expected of
\* length N with 0 < M <= N: an offset in [0, N-M] of minimum population
\* variance of the differences, the smallest one on ties, with one
\* (difference, error bound) pair per observed event, in seconds; for
\* observed == expected the offset 0 and differences of exactly 0
ReturnsMinimumVarianceOffset ==
    (Compared /\ lastOp.outcome = "ok") =>
        LET ch == ComparedChannel
            ret == Get(Get(lastOp.detail).returned)
            k == ret[1]
            offsets == 0..(Len(ch.expected) - Len(ch.observed))
        IN /\ k \in offsets
           /\ \A j \in offsets :
                 /\ PairwiseSpread(OffsetDiffs(ch, k)) <= PairwiseSpread(OffsetDiffs(ch, j))
                 /\ PairwiseSpread(OffsetDiffs(ch, k)) = PairwiseSpread(OffsetDiffs(ch, j))
                       => k <= j
           /\ Len(ret[3]) = Len(ch.observed)
           /\ \A i \in 1..Len(ch.observed) :
                 ret[3][i] = <<DividedBy(ch.observed[i] - ch.expected[k + i], syncClockTickRate),
                               DividedBy(ErrorBound, syncClockTickRate)>>
           /\ ch.observed = ch.expected =>
                 /\ k = 0
                 /\ \A i \in 1..Len(ret[3]) : ret[3][i][1][1] = 0

GenCalled(fn) == IsSet(genCall) /\ Get(genCall).fn = fn
GenArgs == Get(genCall).args
GenResult == Get(genOut)

\* the base rate of the integer design: 24 for 24 and 48 fps, 25 for 25
\* and 50 fps, 30 for 30 and 60 fps
IntegerDesignBase(fps) ==
    CASE fps \in {24, 48} -> 24
      [] fps \in {25, 50} -> 25
      [] fps \in {30, 60} -> 30

\* C14: for each of the integer frame rates 24, 25, 30, 48, 50, 60,
\* createFpsBitTimingsFractional(fps, 1) gives one pulse for a zero bit at
\* 3.5 base-frame periods and two pulses for a one bit at 3.5 and 9.5
\* base-frame periods, the base rate being that of the integer design.
C14_IntegerRatesKeepIntegerDesign ==
    \A fps \in IntegerRates :
       (GenCalled("createFpsBitTimingsFractional")
          /\ GenArgs = <<IntArg(fps), IntArg(1)>>) =>
          /\ GenResult.outcome = "ok"
          /\ Get(GenResult.value)[0] = <<Fraction(7, 2 * IntegerDesignBase(fps))>>
          /\ Get(GenResult.value)[1] = <<Fraction(7, 2 * IntegerDesignBase(fps)),
                                         Fraction(19, 2 * IntegerDesignBase(fps))>>

\* the call was made with a frame rate validate_fps_rational accepts
GenRateAccepted(num, den) == validate_fps_rational(num, den).outcome = "ok"

\* C15: for every frame rate validate_fps_rational accepts and every
\* sequence length, genEventCentreTimesFractional yields strictly
\* increasing times: every pulse offset of a bit is positive and less than
\* the one-second bit interval, so no pulse of a bit comes at or after a
\* pulse of the next bit.
C15_EventTimesStrictlyIncreasing ==
    (GenCalled("genEventCentreTimesFractional")
       /\ GenRateAccepted(GenArgs[2], GenArgs[3])) =>
       /\ GenResult.outcome = "ok"
       /\ LET events == Get(GenResult.value)
              timings == Get(createFpsBitTimingsFractional(GenArgs[2], GenArgs[3]).value)
          IN /\ \A i \in 1..(Len(events) - 1) : FractionLess(events[i], events[i + 1])
             /\ \A bit \in {0, 1} : \A k \in 1..Len(timings[bit]) :
                   /\ FractionLess(<<0, 1>>, timings[bit][k])
                   /\ FractionLess(timings[bit][k], <<1, 1>>)

\* C16: frame -> time -> frame is the identity: for every frame number
\* n >= 0 and every frame rate validate_fps_rational accepts,
\* seconds_to_frame of the time frame_to_seconds returns for n is n.
C16_FrameTimeFrameIdentity ==
    GenCalled("seconds_to_frame") =>
       \A n \in 0..MaxFrame :
          LET time == frame_to_seconds(n, GenArgs[2], GenArgs[3])
          IN (time.outcome = "ok" /\ GenArgs[1] = Get(time.value)) =>
                /\ GenResult.outcome = "ok"
                /\ Get(GenResult.value) = n

\* C16 witness: the time of frame 3 at 30000/1001 fps was converted back
C16_Witness ==
    /\ GenCalled("seconds_to_frame")
    /\ GenArgs = <<Fraction(3003, 30000), IntArg(30000), IntArg(1001)>>
    /\ GenResult.outcome = "ok"

\* C17: frame timing is exact and linear: for an accepted frame rate and
\* frame numbers a, b >= 0, frame_to_seconds(0) = 0, the times of frame a
\* and a + 1 differ by calculate_frame_duration = den/num > 0,
\* frame_to_seconds(a + b) = frame_to_seconds(a) + frame_to_seconds(b), and
\* calculate_sequence_duration(a) = a x calculate_frame_duration.
C17_FrameTimingLinear ==
    /\ (GenCalled("frame_to_seconds") /\ GenArgs[1] >= 0
          /\ GenRateAccepted(GenArgs[2], GenArgs[3])) =>
          LET a == GenArgs[1]
              num == GenArgs[2]
              den == GenArgs[3]
              duration == Get(calculate_frame_duration(num, den).value)
              Time(n) == Get(frame_to_seconds(n, num, den).value)
          IN /\ GenResult.outcome = "ok"
             /\ (a = 0) => Get(GenResult.value) = <<0, 1>>
             /\ FractionSub(Time(a + 1), Get(GenResult.value)) = duration
             /\ duration[1] * num.val = duration[2] * den.val
             /\ FractionLess(<<0, 1>>, duration)
             /\ FractionLess(Get(GenResult.value), Time(a + 1))
             /\ \A b \in 0..MaxFrame :
                   Time(a + b) = FractionAdd(Get(GenResult.value), Time(b))
    /\ (GenCalled("calculate_sequence_duration") /\ GenArgs[1] >= 0
          /\ GenRateAccepted(GenArgs[2], GenArgs[3])) =>
          LET duration == Get(calculate_frame_duration(GenArgs[2], GenArgs[3]).value)
          IN /\ GenResult.outcome = "ok"
             /\ Get(GenResult.value) = Fraction(GenArgs[1] * duration[1], duration[2])

\* C17 witness: the time of frame 2 at 24000/1001 fps has been computed
C17_Witness ==
    /\ GenCalled("frame_to_seconds")
    /\ GenArgs = <<2, IntArg(24000), IntArg(1001)>>
    /\ GenResult.outcome = "ok"
    /\ Get(GenResult.value) = <<1001, 12000>>

\* a pair of arguments that is a frame rate: two integers, both positive,
\* with 0.1 <= num/den < 500
IsFrameRate(num, den) ==
    /\ num.type = "int" /\ den.type = "int"
    /\ num.val > 0 /\ den.val > 0
    /\ 10 * num.val >= den.val
    /\ num.val < 500 * den.val

\* the frame rate arguments of the latest call of a timing function
GenRateArgs == <<GenArgs[Len(GenArgs) - 1], GenArgs[Len(GenArgs)]>>

ArgsCalled == GenCalled("parse_fractional_args")

\* the positions of the frame-rate arguments (--fps, --fps-<standard>) and
\* of the presets on the command line
FpsPositions(args_list) ==
    {k \in 1..Len(args_list) : args_list[k].dest \in {"FPS_INPUT", "FPS_SHORTCUT"}}
PresetPositions(args_list) ==
    {k \in 1..Len(args_list) : args_list[k].dest = "FORMAT_PRESET"}

\* --fps together with a shortcut, or two different shortcuts
ConflictingFps(args_list) ==
    \E j, k \in FpsPositions(args_list) :
       /\ args_list[j].dest = "FPS_SHORTCUT"
       /\ \/ args_list[k].dest = "FPS_INPUT"
          \/ args_list[k].const # args_list[j].const

\* the rate a frame-rate argument names, None when it names none
ArgumentRate(option) ==
    IF option.dest = "FPS_SHORTCUT" THEN Some(BROADCAST_SHORTCUTS[option.const])
    ELSE (CHOOSE t \in FpsTexts : t.text = option.value).rate

OnlyFpsArgument(args_list) ==
    args_list[CHOOSE k \in FpsPositions(args_list) : TRUE]

SizePositions(args_list) ==
    {k \in 1..Len(args_list) : args_list[k].dest \in {"SIZE_INPUT", "SIZE_SHORTCUT"}}

\* C21: a command line with a --preset-<name> together with --fps, an
\* --fps-<standard> shortcut, --size or a --size-<preset> shortcut is
\* rejected as conflicting
C21_PresetExcludesFpsAndSize ==
    ArgsCalled =>
      LET args_list == GenArgs[1]
      IN PresetPositions(args_list) # {}
           /\ FpsPositions(args_list) \cup SizePositions(args_list) # {}
         => GenResult.outcome = "SystemExit"

\* ------------------------------------------------------------------------
\* C22: the four slots of repackageSamples
\* ------------------------------------------------------------------------

\* the slot of each pin, counted from 1: LIGHT_0 -> 0, AUDIO_0 -> 1,
\* LIGHT_1 -> 2, AUDIO_1 -> 3 as list indices
SlotPins == <<"LIGHT_0", "AUDIO_0", "LIGHT_1", "AUDIO_1">>

\* C22: whenever repackageSamples returns, it returns exactly four slots
\* indexed by device channel; a slot holds a channel iff its pin was
\* requested and is None otherwise; the min and max lists of every channel
\* have length nMilliBlocks; isAudio is true exactly for AUDIO_0 and AUDIO_1.
C22_FourSlotsByDeviceChannel ==
    (IsSet(rpOut) /\ Get(rpOut).outcome = "ok") =>
        LET out == Get(rpOut).channels
        IN /\ Len(out) = 4
           /\ \A k \in 1..4 :
                 /\ (out[k] # None) <=> (SlotPins[k] \in Range(rpPins))
                 /\ (out[k] # None) =>
                       /\ Get(out[k]).pinName = SlotPins[k]
                       /\ Len(Get(out[k]).min) = rpBlocks
                       /\ Len(Get(out[k]).max) = rpBlocks
                       /\ Get(out[k]).isAudio
                            = (SlotPins[k] \in {"AUDIO_0", "AUDIO_1"})

\* C22 witness: LIGHT_1 and AUDIO_0 requested over two sample intervals
\* came back in slots 3 and 2, the other slots None
C22_Witness ==
    /\ IsSet(rpOut) /\ Get(rpOut).outcome = "ok"
    /\ rpPins = <<"LIGHT_1", "AUDIO_0">>
    /\ rpBlocks = 2
    /\ Get(rpOut).channels[1] = None /\ Get(rpOut).channels[4] = None
    /\ Get(Get(rpOut).channels[2]).isAudio
    /\ ~Get(Get(rpOut).channels[3]).isAudio

\* ------------------------------------------------------------------------
\* C23: order and repetition of the requested pins
\* ------------------------------------------------------------------------

\* the requested pins in ascending device-channel index
RequestedSlots(pins) == {k \in 1..4 : SlotPins[k] \in Range(pins)}
RankOf(k, pins) == Cardinality({j \in RequestedSlots(pins) : j < k})

\* C23: the result of repackageSamples is the same for every list naming
\* the same set of pins over the same buffer, and within each sample
\* interval the bytes go to the active pins in ascending device-channel
\* index, max byte first and then min byte.
C23_OrderAndRepetitionIrrelevant ==
    IsSet(rpOut) =>
        /\ \A other \in SeqsUpTo(PinNames \cup {UnknownPin}, MaxPins + 1) :
              Range(other) = Range(rpPins) =>
                 repackageSamples(other, rpBlocks, rpSamples) = Get(rpOut)
        /\ Get(rpOut).outcome = "ok" =>
              LET n == Cardinality(RequestedSlots(rpPins))
              IN \A k \in RequestedSlots(rpPins) : \A blk \in 0..(rpBlocks - 1) :
                    LET i == 2 * (blk * n + RankOf(k, rpPins))
                        ch == Get(Get(rpOut).channels[k])
                    IN /\ ch.max[blk + 1] = rpSamples[i + 1]
                       /\ ch.min[blk + 1] = rpSamples[i + 2]

\* C23 witness: two pins requested against channel order, with differing
\* bytes in the buffer, have been repackaged
C23_Witness ==
    /\ IsSet(rpOut) /\ Get(rpOut).outcome = "ok"
    /\ rpPins = <<"AUDIO_0", "LIGHT_0">>
    /\ rpBlocks = 2
    /\ Get(Get(rpOut).channels[1]).max # Get(Get(rpOut).channels[2]).max

\* ------------------------------------------------------------------------
\* C24: construct -> capture -> detect -> compare
\* ------------------------------------------------------------------------

GetChannelsStep ==
    /\ lastOp'.op = "getComparisonChannels"
    /\ (lastOp' # lastOp \/ callbacksSince' < callbacksSince)

\* the pin names of the channels a detection pass handed to the detector
HandedPins == [k \in 1..Len(Get(lastOp.detail)) |-> Get(lastOp.detail)[k].pinName]

\* C24, the order of the steps: a detection pass run while no capture has
\* left a correlation list (none has completed) fails and leaves no
\* testPackage; getComparisonChannels yields a testPackage only when a
\* detection pass has completed, and then that pass's testPackage.
C24_StepsInOrder ==
    [][/\ (DetectionStep /\ wcSyncTimeCorrelations = None)
            => /\ lastOp'.outcome # "ok"
               /\ testPackage = None /\ testPackage' = None
       /\ (DetectionStep /\ lastOp'.outcome = "ok")
            => /\ IsSet(channels) /\ IsSet(wcSyncTimeCorrelations)
               /\ IsSet(dueStartTimeUsecs) /\ IsSet(wcAcReqResp)
       /\ GetChannelsStep
            => IF IsSet(observedTimings)
                 THEN /\ lastOp'.outcome = "ok"
                      /\ lastOp'.detail = testPackage /\ IsSet(testPackage)
                 ELSE /\ lastOp'.outcome = "AttributeError"
                      /\ lastOp'.detail = None]_vars

\* C24, the channels handed over: a detection pass that reaches the
\* detector hands it exactly one channel per pin named in pinsToMeasure.
C24_OneChannelPerActivePin ==
    (lastOp.op = "detectBeepsAndFlashes" /\ IsSet(lastOp.detail)) =>
        /\ Range(HandedPins) = Range(pinsToMeasure)
        /\ Len(HandedPins) = Cardinality(Range(pinsToMeasure))
        /\ IsSet(wcSyncTimeCorrelations) /\ IsSet(channels)

\* C24: both parts
C24_SessionOrder == C24_StepsInOrder /\ []C24_OneChannelPerActivePin

\* C24 witness: after construction, capture and a detection pass over two
\* pins, getComparisonChannels has handed out the two entries
C24_Witness ==
    /\ lastOp.op = "getComparisonChannels" /\ lastOp.outcome = "ok"
    /\ Len(Get(lastOp.detail)) = 2
    /\ pinsToMeasure = <<"AUDIO_0", "LIGHT_0">>
    /\ IsSet(channels) /\ IsSet(observedTimings)

\* ------------------------------------------------------------------------
\* C25: what capture() leaves behind
\* ------------------------------------------------------------------------

\* a call of capture() has returned or raised
CaptureEnded == lastOp.op = "capture" /\ lastOp.outcome # "running"

\* C25: after capture() returns or raises, the channels, the due-start and
\* due-finish times, the round-trip samples and the correlation list for
\* the detector are all set or none of them is, for every role and with or
\* without a registered clock controller; a capture that returns normally
\* with at least one active pin leaves a correlation list.
C25_CaptureAllOrNothing ==
    CaptureEnded =>
        /\ \/ /\ IsSet(channels) /\ IsSet(dueStartTimeUsecs)
              /\ IsSet(dueFinishTimeUsecs) /\ IsSet(wcAcReqResp)
              /\ IsSet(wcSyncTimeCorrelations)
           \/ /\ channels = None /\ dueStartTimeUsecs = None
              /\ dueFinishTimeUsecs = None /\ wcAcReqResp = None
              /\ wcSyncTimeCorrelations = None
        /\ (lastOp.outcome = "ok" /\ nActivePins > 0)
              => IsSet(wcSyncTimeCorrelations)

\* ------------------------------------------------------------------------
\* C26: the duration hints and the channels handed to the detector
\* ------------------------------------------------------------------------

\* the slots of a channel list that hold a channel, in index order
NonNoneSlots(chs) == SelectSeq(chs, LAMBDA c : c # None)

\* C26: a detection pass over captured channels attaches the eventDuration
\* hint to the channel of every measured pin with an entry in
\* eventDurations, an entry for a pin that is not measured has no effect
\* (the pass goes on to the detector), and the detector receives exactly
\* the non-None slots in ascending index order, min and max unchanged.
C26_HintsAttachedOthersIgnored ==
    [][(DetectionStep /\ IsSet(channels) /\ IsSet(wcSyncTimeCorrelations)) =>
          LET before == NonNoneSlots(Get(channels))
          IN /\ IsSet(lastOp'.detail)
             /\ Len(Get(lastOp'.detail)) = Len(before)
             /\ \A k \in 1..Len(before) :
                   LET was == Get(before[k])
                       handed == Get(lastOp'.detail)[k]
                   IN /\ handed.pinName = was.pinName
                      /\ handed.min = was.min /\ handed.max = was.max
                      /\ handed.eventDuration =
                            IF was.pinName \in Range(eventDurations)
                              THEN Some(DurationFor(was.pinName))
                              ELSE was.eventDuration]_vars

\* ------------------------------------------------------------------------
\* C27: the correlation log is in arrival order
\* ------------------------------------------------------------------------

\* C27, the entries: the local observation times of the log never
\* decrease along it, and every entry carries (received wall-clock time,
\* sync-timeline value, speed multiplier) of the control timestamp that
\* was the controller's latest at its observation time.
C27_LogOrderedByObservation ==
    IsSet(timestampedReceivedControlTimeStamps) =>
        LET log == Get(timestampedReceivedControlTimeStamps)
        IN /\ \A i, j \in 1..Len(log) : i < j => log[i][1] <= log[j][1]
           /\ \A k \in 1..Len(log) :
                 /\ log[k][2] \in LatestCts(log[k][1])
                 /\ log[k][2] = <<log[k][1], SyncTimelineTicks(log[k][1]), TimelineSpeed>>

\* C27, the arrivals: a callback puts its entry, observed at the wall clock
\* time of the callback, after every entry already in the log.
C27_CallbackAppendsLast ==
    [][(callbacksSince' = callbacksSince + 1) =>
          LET old == Get(timestampedReceivedControlTimeStamps)
              new == Get(timestampedReceivedControlTimeStamps')
          IN /\ Len(new) = Len(old) + 1
             /\ SubSeq(new, 1, Len(old)) = old
             /\ new[Len(new)][1] = wallTicks]_vars

\* C27: both parts
C27_ArrivalOrder == []C27_LogOrderedByObservation /\ C27_CallbackAppendsLast

\* C27 witness: two callbacks, the second at a later wall clock time, are
\* in the log in that order
C27_Witness ==
    /\ IsSet(timestampedReceivedControlTimeStamps)
    /\ Len(Get(timestampedReceivedControlTimeStamps)) = 2
    /\ Get(timestampedReceivedControlTimeStamps)[1][1]
         < Get(timestampedReceivedControlTimeStamps)[2][1]

\* ------------------------------------------------------------------------
\* C28: the comparison result in seconds
\* ------------------------------------------------------------------------

\* the fraction q is the exact quotient x / syncClockTickRate
IsQuotientByTickRate(q, x) ==
    q[2] # 0 /\ q[1] * syncClockTickRate = x * q[2]

\* C28: for 0 < M <= N doComparison returns the comparator's match index
\* unchanged, each expected time e as (e - videoStartTicks) /
\* syncClockTickRate, and each (difference, error bound) pair with both
\* members divided by syncClockTickRate without truncation, the lists
\* keeping their length and order.
C28_ResultInSeconds ==
    (lastOp.op = "doComparison"
       /\ Len(ComparedChannel.observed) > 0
       /\ Len(ComparedChannel.observed) <= Len(ComparedChannel.expected)) =>
        LET did == Get(lastOp.detail)
            r == analyseDoComparison(ComparedChannel.observed, ComparedChannel.expected)
            ret == Get(did.returned)
        IN /\ lastOp.outcome = "ok" /\ did.invoked
           /\ ret[1] = r.matchIndex
           /\ Len(ret[2]) = Len(ComparedChannel.expected)
           /\ \A i \in 1..Len(ret[2]) :
                 IsQuotientByTickRate(ret[2][i],
                                      ComparedChannel.expected[i] - videoStartTicks)
           /\ Len(ret[3]) = Len(ComparedChannel.observed)
           /\ \A i \in 1..Len(ret[3]) :
                 /\ IsQuotientByTickRate(ret[3][i][1], r.diffsAndErrors[i][1])
                 /\ IsQuotientByTickRate(ret[3][i][2], r.diffsAndErrors[i][2])

\* C28 witness: a comparison whose differences are not whole multiples of
\* the tick rate has returned them as fractions
C28_Witness ==
    /\ lastOp.op = "doComparison" /\ lastOp.outcome = "ok"
    /\ ComparedChannel = UnevenScenarioChannel
    /\ Get(Get(lastOp.detail).returned)[3][1][1] = <<1, 10>>
    /\ Get(Get(lastOp.detail).returned)[2][4] = <<2100, 10>>

\* ------------------------------------------------------------------------
\* C29: what the parser returns, the validation accepts
\* ------------------------------------------------------------------------

\* C29: every pair returned by parse_frame_rate, whatever the format of
\* its input, is accepted by validate_fps_rational: both components are
\* positive and 0.1 <= numerator / denominator < 500.
C29_ParsedRateIsValid ==
    (GenCalled("parse_frame_rate") /\ GenResult.outcome = "ok") =>
        LET pair == Get(GenResult.value)
        IN /\ pair[1] > 0 /\ pair[2] > 0
           /\ 10 * pair[1] >= pair[2]
           /\ pair[1] < 500 * pair[2]
           /\ validate_fps_rational(IntArg(pair[1]), IntArg(pair[2])).outcome = "ok"

\* ------------------------------------------------------------------------
\* C30: the frames of a flash sequence
\* ------------------------------------------------------------------------

\* the frames of the sequence yielded that are lit
LitFrames(frames) == {i \in 1..Len(frames) : frames[i] # gapValue}

\* the arguments of the call of genFlashSequenceFractional
FlashArgs == Get(genCall).args

FlashCalled == GenCalled("genFlashSequenceFractional") /\ GenResult.outcome = "ok"

\* the whole number of frame periods the flash duration is, or 0
PeriodsOfFlash ==
    LET k == Fraction(FlashArgs[2][1] * FlashArgs[4], FlashArgs[2][2] * FlashArgs[5])
    IN IF k[2] = 1 THEN k[1] ELSE 0

\* C30: genFlashSequenceFractional yields as many frames as the ceiling of
\* sequenceDuration * fps_num / fps_den, and an event whose ideal flash
\* duration is exactly k frame periods lights at most k frames, wherever
\* its centre lies, the midpoint of a frame included.
C30_FrameCountAndFlashWidth ==
    FlashCalled =>
        LET frames == Get(GenResult.value)
            n == FlashArgs[3][1] * FlashArgs[4]
            d == FlashArgs[3][2] * FlashArgs[5]
        IN /\ Len(frames) = (n + d - 1) \div d
           /\ (Len(FlashArgs[1]) = 1 /\ PeriodsOfFlash > 0) =>
                 Cardinality(LitFrames(frames)) <= PeriodsOfFlash

====
